---- MODULE Spec2Model ----
(***************************************************************************)
(* Behavioural model of the krakenbot repository:                          *)
(*   - gpt-bot/libs/ExecutionEngine.js  (risk ledger, execute, handleFill) *)
(*   - gpt-bot/Bot.js                   (order submission, dry-run)        *)
(*   - gpt-bot/libs/EventEngine.js      (debounced trigger detection)      *)
(*   - gpt-bot/llm-bot.js               (evaluation cycle orchestration)   *)
(*   - KrakenMonitor                    (public socket, subscriptions)     *)
(* JavaScript numbers are idealised as exact rationals [n, d]; an optional *)
(* value (null / undefined) is the empty sequence, a present one <<v>>.    *)
(***************************************************************************)
EXTENDS Integers, Sequences, FiniteSets, TLC

VARIABLES
    pairInfo,         \* Bot._pairInfo: the pair metadata fetched at start
    \* ---- ExecutionEngine + Bot order path ----
    now,              \* Date.now(), in ms
    dryRun,           \* Bot.options.dryRun
    eng,              \* the ExecutionEngine instance's fields
    openOrders,       \* orders the exchange accepted, fill not yet notified
    addOrderCalls,    \* number of REST AddOrder requests issued
    last,             \* the last operation: what was called and what it returned
    opCount,          \* number of operations and clock advances so far
    netCash,          \* history: cash paid for applied buys minus cash received
                      \* for applied sells (a sell counts for the part of
                      \* its quantity the position holds)
    \* ---- EventEngine ----
    ev,               \* the EventEngine instance's fields
    emitLog,          \* history: timestamps of the non-empty emissions of
                      \* detect since the last reset, in call order
    evLast,           \* the last EventEngine call and what it returned
    seen,             \* history: the liquidity flags and the daily PnL of the
                      \* snapshot of the previous detect call (none since
                      \* construction or reset())
    evOps,            \* number of EventEngine calls and clock advances so far
    \* ---- LLMBot ----
    processing,       \* LLMBot.processing
    cycles,           \* the invocations of _runEvaluationCycle past the guard
    botLast,          \* the last call made to the bot and how it was received
    botOps,           \* number of calls to the bot and clock advances so far
    deciderCalls,     \* number of llmDecider.decide calls started
    \* ---- KrakenMonitor ----
    mon,              \* the KrakenMonitor instance's public-socket state
    monLast,          \* the last event at the monitor
    monOps,           \* number of calls and connection drops so far
    \* ---- Data (REST client) ----
    calls,            \* the makeRequest / getOpenOrders calls of one client
    nonceLog,         \* history: the last two nonces the client injected
    restTicks,        \* number of clock advances so far
    \* ---- ExecutionEngine balance cache ----
    reads,            \* the ensureBalanceSnapshot calls of one engine
    \* ---- KrakenMonitor message dispatch ----
    handlers,         \* the handlers of one entry, in registration order
    disp,             \* the last message dispatched and what became of it
    \* ---- Level2Logger ----
    book,             \* bookStates.get(symbol): bids, asks, lastFlush
    bookLast,         \* the last book event delivered
    \* ---- LLMDecider ----
    dec,              \* the decide call in progress or last returned
    calledWith,       \* history: the reason lists the mock or the model was
                      \* called with
    \* ---- DecisionLogger ----
    logs,             \* the logDecision calls, in call order
    logFile,          \* the CSV file
    initialised,      \* DecisionLogger.initialised
    \* ---- Bot / LLMBot start and stop ----
    botState,         \* running, the subscriptions held, the timer, the monitor
    \* ---- Bot: the trading pair ----
    botPair,          \* wsPair, restPair, baseAsset, quoteAsset of the bot
    symLast,          \* the last pair given, by whom, and the pair before it
    symOps,           \* number of setPair calls so far
    \* ---- FeatureBuilder ----
    featureSnap,      \* the timeframes of the last snapshot and its confluence
    \* ---- limit-grid Bot ----
    gridBot           \* the version of the class, busy, the onRebalance calls

execVars == <<now, dryRun, eng, openOrders, addOrderCalls, last, opCount, netCash>>

evVars == <<ev, emitLog, evLast, seen, evOps>>

botVars == <<processing, cycles, botLast, botOps, deciderCalls>>

monVars == <<mon, monLast, monOps>>

restVars == <<calls, nonceLog, restTicks>>
pairVars == <<pairInfo>>

balVars == <<reads>>

\* the components modelled on their own
dispVars == <<handlers, disp>>

bookVars == <<book, bookLast>>

decVars == <<dec, calledWith>>

logVars == <<logs, logFile, initialised>>

stopVars == <<botState>>

symVars == <<botPair, symLast, symOps>>

confVars == <<featureSnap>>

gridVars == <<gridBot>>

extraVars == <<symVars, confVars, gridVars>>

sideVars == <<balVars, dispVars, bookVars, decVars, logVars, stopVars,
              extraVars>>

vars == <<execVars, evVars, botVars, monVars, restVars, pairVars, sideVars>>

-----------------------------------------------------------------------------
(* Bounds of the model *)
MaxOps == 3
StartTime == 100000
MaxEvOps == 3
MaxTickOps == 4
MaxBotOps == 3
MaxCycles == 2
MaxMonOps == 5
MaxHandlers == 2
MaxRestCalls == 2
MaxRestTicks == 7
MaxReads == 3
MaxBalTicks == 2
MaxDispHandlers == 3
MaxItems == 2
MaxLevels == 2
MaxLogCalls == 3
MaxStopDetects == 3

MaxSymOps == 3

MaxFills == 4

MaxRebalances == 3

(* Program constants *)
DefaultSizePct == 25
DefaultTrimPct == 50
MinNotional == 20
PauseAfterLosses == 2
PauseMinutes == 30
LossWindowLen == 5
MsPerMinute == 60000
CacheDurationMs == 30000
DebounceMs == 60000
ConfluenceDelta == 2
DrawdownGuard == 2
PositionAgeBars == 36
MaxRetries == 3
BackoffMs == 250
MaxAttempts == 5
BaseDelay == 250

-----------------------------------------------------------------------------
(* Exact rationals standing for JS numbers *)
Abs(x) == IF x < 0 THEN -x ELSE x

\* Euclid's algorithm, as a function so that its arguments are values
GCD[a \in Nat, b \in Nat] == IF b = 0 THEN a ELSE GCD[b, a % b]

\* the values: numerator and denominator
Rational == [n : Int, d : Int]

\* The operations are functions, so that each takes its arguments as values
Rat[n \in Int, d \in Int] ==
    LET s == IF d < 0 THEN -1 ELSE 1
        g == GCD[Abs(n), Abs(d)]
    IN  [n |-> (s * n) \div g, d |-> (s * d) \div g]

RInt(i) == [n |-> i, d |-> 1]
RZero == RInt(0)
RAdd[a \in Rational, b \in Rational] == Rat[a.n * b.d + b.n * a.d, a.d * b.d]
RSub[a \in Rational, b \in Rational] == Rat[a.n * b.d - b.n * a.d, a.d * b.d]
RMul[a \in Rational, b \in Rational] == Rat[a.n * b.n, a.d * b.d]
RDiv[a \in Rational, b \in Rational] == Rat[a.n * b.d, a.d * b.n]
RLt[a \in Rational, b \in Rational] == a.n * b.d < b.n * a.d
RLe[a \in Rational, b \in Rational] == a.n * b.d <= b.n * a.d
RMin[a \in Rational, b \in Rational] == IF RLt[b, a] THEN b ELSE a
RMax[a \in Rational, b \in Rational] == IF RLt[a, b] THEN b ELSE a
RPos(a) == a.n > 0
RFloor(a) == a.n \div a.d

RECURSIVE Pow10(_)
Pow10(k) == IF k = 0 THEN 1 ELSE 10 * Pow10(k - 1)

(* Values the environment supplies: ticker prices, the account's quote
   balance, fill quantities, and the pair metadata Kraken reports *)
TickerLow == RInt(2)
TickerHigh == RInt(3)
BalanceHigh == RInt(4000)
BalanceLow == RInt(1000)
FillQtySmall == RInt(5)
FillQtyLarge == RInt(20)
LongPauseMinutes == PauseMinutes + 15
PairInfo == [ordermin |-> RInt(4), lot_decimals |-> 1, pair_decimals |-> 2]
\* a pair quoted and traded in whole units
PairInfoWhole == [ordermin |-> RInt(4), lot_decimals |-> 0, pair_decimals |-> 0]

(* Optional values *)
None == <<>>
Some(v) == <<v>>
IsSome(o) == Len(o) > 0
Get(o) == o[1]

\* A JavaScript value a decision field may hold: absent (undefined), null, or
\* a number.  ToNumber is Number(x) when Number.isFinite(Number(x)), else
\* None: Number(undefined) is NaN, Number(null) is 0.
JsUndefined == [kind |-> "undefined", num |-> 0]
JsNull == [kind |-> "null", num |-> 0]
JsNum(n) == [kind |-> "number", num |-> n]
ToNumber(x) == IF x.kind = "undefined" THEN None ELSE Some(x.num)

-----------------------------------------------------------------------------
(* Bot.js: precision helpers and order submission *)

EnforcePrecision == TRUE

RECURSIVE StripTrailingZeros(_)
StripTrailingZeros(i) ==
    IF i # 0 /\ i % 10 = 0 THEN StripTrailingZeros(i \div 10) ELSE i

\* formatWithPrecision: Math.round(numeric * factor) / factor, printed with
\* toFixed(precision) and then stripped by /\.?0+$/.  The result is the numeric
\* value of the string.  With precision 0 the printed integer has no decimal
\* point, so the strip removes the integer's own trailing zeros.
FormatWithPrecision(value, precision) ==
    LET factor  == Pow10(precision)
        scaled  == RMul[value, RInt(factor)]
        rounded == RFloor(RAdd[scaled, Rat[1, 2]])
    IN  IF precision = 0
        THEN RInt(StripTrailingZeros(rounded))
        ELSE Rat[rounded, factor]

ApplyPricePrecision(value) ==
    IF ~EnforcePrecision THEN value ELSE FormatWithPrecision(value, pairInfo.pair_decimals)

ApplyVolumePrecision(value) ==
    IF ~EnforcePrecision THEN value ELSE FormatWithPrecision(value, pairInfo.lot_decimals)

MinimumVolume == pairInfo.ordermin

\* _normaliseVolume: [thrown, v]
NormaliseVolume(volume) ==
    IF ~RPos(volume) THEN [thrown |-> TRUE, v |-> RZero]
    ELSE IF ~EnforcePrecision THEN [thrown |-> FALSE, v |-> volume]
    ELSE IF RPos(MinimumVolume) /\ RLt[volume, MinimumVolume]
         THEN [thrown |-> TRUE, v |-> RZero]
    ELSE [thrown |-> FALSE, v |-> ApplyVolumePrecision(volume)]

\* _normalisePrice: [thrown, v]
NormalisePrice(price) ==
    IF ~RPos(price) THEN [thrown |-> TRUE, v |-> RZero]
    ELSE [thrown |-> FALSE, v |-> ApplyPricePrecision(price)]

NoPayload == [type |-> "none", ordertype |-> "none", volume |-> RZero, price |-> None]

\* _submitOrder up to the dry-run test: the payload it builds, or that it threw.
\* req = [type, ordertype, price (optional), volume]
BuildPayload(req) ==
    LET vol == NormaliseVolume(req.volume)
        prc == IF IsSome(req.price) THEN NormalisePrice(Get(req.price))
               ELSE [thrown |-> FALSE, v |-> RZero]
    IN  IF vol.thrown \/ prc.thrown
        THEN [thrown |-> TRUE, payload |-> NoPayload]
        ELSE [thrown |-> FALSE,
              payload |-> [type |-> req.type, ordertype |-> req.ordertype,
                           volume |-> vol.v,
                           price |-> IF IsSome(req.price) THEN Some(prc.v) ELSE None]]

\* a _submitOrder that ignores options.dryRun
SubmitNeverDryRun(dry) == FALSE

\* _submitOrder's branch: TRUE when the call answers {dryRun: true, payload}
\* without reaching data.addOrder.
SubmitIsDryRun(dry) == dry

-----------------------------------------------------------------------------
(* ExecutionEngine.js.  position.openedAt records only whether a timestamp *)
(* is set; unrealizedR and barsOpen5m (updateMarketContext) are not kept.  *)

EngineInit ==
    [position |-> [side |-> "FLAT", size |-> RZero, averagePrice |-> RZero,
                   openedAt |-> FALSE],
     realizedPnlQuote |-> RZero,
     dailyStartingBalance |-> None,
     dailyPnlPct |-> RZero,
     lossCountWindow |-> <<>>,
     pauseUntil |-> 0,
     lastBalances |-> None,
     lastBalanceTs |-> 0]

IsPaused(e, t) == t < e.pauseUntil

\* lossCountWindow.slice(-5)
LastN(s, k) == IF Len(s) <= k THEN s ELSE SubSeq(s, Len(s) - k + 1, Len(s))

CountLosses(w) == Cardinality({i \in 1..Len(w) : w[i]})

\* a #maybeApplyPause that never starts the cooldown
MaybeApplyPauseNever(e, t) == e

\* #maybeApplyPause
MaybeApplyPause(e, t) ==
    IF CountLosses(e.lossCountWindow) >= PauseAfterLosses
    THEN [e EXCEPT !.pauseUntil = t + PauseMinutes * MsPerMinute,
                   !.lossCountWindow = <<>>]
    ELSE e

\* #recalculateDailyPnL
RecalculateDailyPnL(e) ==
    IF ~IsSome(e.dailyStartingBalance) \/ Get(e.dailyStartingBalance) = RZero
    THEN e
    ELSE LET start   == Get(e.dailyStartingBalance)
             current == RAdd[start, e.realizedPnlQuote]
         IN  IF RPos(start)
             THEN [e EXCEPT !.dailyPnlPct =
                      RMul[RDiv[RSub[current, start], start], RInt(100)]]
             ELSE e

\* #applyFill, buy branch
ApplyBuy(e, quantity, price, assumeFill, t) ==
    LET pos        == e.position
        value      == RMul[quantity, price]
        newSize    == RAdd[pos.size, quantity]
        newAverage == RDiv[RAdd[RMul[pos.averagePrice, pos.size], value], newSize]
    IN  [e EXCEPT !.position = [side |-> "LONG", size |-> newSize,
                                averagePrice |-> newAverage,
                                openedAt |-> TRUE],
                  !.lastBalanceTs = IF assumeFill THEN @ ELSE 0]

\* a realised PnL taken over the whole sell quantity, held or not
RealizedOfWholeQuantity(pos, quantity, price) ==
    RMul[RSub[price, pos.averagePrice], quantity]

\* realised PnL of a sell: (price - averagePrice) * min(quantity, size)
RealizedOf(pos, quantity, price) ==
    RMul[RSub[price, pos.averagePrice], RMin[quantity, pos.size]]

\* a sell branch that keeps side and average price when the position empties
ApplySellKeepsAverage(e, quantity, price, t) ==
    [e EXCEPT !.position.size = RMax[RZero, RSub[@, quantity]]]

\* #applyFill, sell branch
ApplySell(e, quantity, price, t) ==
    LET pos       == e.position
        remaining == RMax[RZero, RSub[pos.size, quantity]]
        realized  == RealizedOf(pos, quantity, price)
        e1 == [e EXCEPT
                 !.realizedPnlQuote = RAdd[@, realized],
                 !.position = IF remaining = RZero
                              THEN [side |-> "FLAT", size |-> RZero,
                                    averagePrice |-> RZero, openedAt |-> FALSE]
                              ELSE [pos EXCEPT !.size = remaining],
                 !.lossCountWindow = LastN(Append(@, RLt[realized, RZero]),
                                           LossWindowLen)]
    IN  MaybeApplyPause(e1, t)

\* #applyFill
ApplyFill(e, side, quantity, price, assumeFill, t) ==
    IF ~RPos(quantity) \/ ~RPos(price) THEN e
    ELSE IF side = "buy"  THEN RecalculateDailyPnL(ApplyBuy(e, quantity, price, assumeFill, t))
    ELSE IF side = "sell" THEN RecalculateDailyPnL(ApplySell(e, quantity, price, t))
    ELSE RecalculateDailyPnL(e)

\* handleFill: fill = [side, quantity, price] or None
HandleFill(e, fill, t) ==
    IF ~IsSome(fill) THEN e
    ELSE LET f == Get(fill)
         IN  IF ~RPos(f.quantity) \/ ~RPos(f.price) THEN e
             ELSE IF f.side = "buy"  THEN ApplyFill(e, "buy", f.quantity, f.price, FALSE, t)
             ELSE IF f.side = "sell" THEN ApplyFill(e, "sell", f.quantity, f.price, FALSE, t)
             ELSE e

\* #loadBalances: fetched is the quote balance bot.fetchBalances() reports, or
\* None when the fetch throws.  Result: [eng, quote].
LoadBalances(e, force, fetched, t) ==
    IF ~force /\ IsSome(e.lastBalances) /\ (t - e.lastBalanceTs) < CacheDurationMs
    THEN [eng |-> e, quote |-> Get(e.lastBalances)]
    ELSE IF IsSome(fetched)
    THEN [eng |-> [e EXCEPT
                     !.dailyStartingBalance =
                         IF ~IsSome(@) \/ Get(@) = RZero THEN fetched ELSE @,
                     !.lastBalances = fetched,
                     !.lastBalanceTs = t],
          quote |-> Get(fetched)]
    ELSE [eng |-> e,
          quote |-> IF IsSome(e.lastBalances) THEN Get(e.lastBalances) ELSE RZero]

\* riskConfig.maxTradeRiskPct = 0.75
MaxTradeRiskPct == Rat[75, 100]

\* #computeNotional, after the balance read: None is null
\* #computeNotional without the per-trade cap
ComputeNotionalUncapped(quoteBalance, sizePct) ==
    IF ~RPos(quoteBalance) THEN None
    ELSE Some(RMul[quoteBalance, RDiv[sizePct, RInt(100)]])

ComputeNotional(quoteBalance, sizePct) ==
    IF ~RPos(quoteBalance) THEN None
    ELSE LET tradeCap == RMul[quoteBalance, RDiv[MaxTradeRiskPct, RInt(100)]]
             desired  == RMul[quoteBalance, RDiv[sizePct, RInt(100)]]
         IN  Some(RMin[tradeCap, desired])

\* #ensureTicker: the 5m close of the features when present, else the fetched
\* ticker (None when bot.fetchTicker() throws)
EnsureTicker(close5m, fetchedTicker) ==
    IF IsSome(close5m) THEN close5m ELSE fetchedTicker

\* #deriveEntryPrice: [isNumber, v].  applyPricePrecision returns a string.
DeriveEntryPrice(lastPrice, entry) ==
    IF ~RPos(lastPrice) THEN [isNumber |-> FALSE, v |-> RZero]
    ELSE IF entry.type # "limit" THEN [isNumber |-> TRUE, v |-> lastPrice]
    ELSE IF ~IsSome(ToNumber(entry.offset_bps))
    THEN [isNumber |-> TRUE, v |-> lastPrice]
    ELSE LET adjusted == RMul[lastPrice,
                              RAdd[RInt(1), Rat[Get(ToNumber(entry.offset_bps)), 10000]]]
         IN  IF ~RPos(adjusted) THEN [isNumber |-> TRUE, v |-> lastPrice]
             ELSE [isNumber |-> ~EnforcePrecision, v |-> ApplyPricePrecision(adjusted)]

\* #pause
Pause(e, decision, t) ==
    LET minutes    == IF IsSome(ToNumber(decision.minutes))
                      THEN Get(ToNumber(decision.minutes))
                      ELSE PauseMinutes
        durationMs == (IF minutes > 1 THEN minutes ELSE 1) * MsPerMinute
    IN  [e EXCEPT !.pauseUntil = t + durationMs]

NoOrder == None

Outcome(e, status, action, order) ==
    [eng |-> e, status |-> status, action |-> action, order |-> order]

\* #openLong up to the order call.  order: the request handed to the bot, the
\* fill the engine assumes once the bot answers, and the additive option.
OpenLong(e, decision, close5m, fetchedTicker, fetchedBal, additive, t) ==
    LET ticker  == EnsureTicker(close5m, fetchedTicker)
        sizePct == IF IsSome(ToNumber(decision.size_pct))
                   THEN Get(ToNumber(decision.size_pct))
                   ELSE DefaultSizePct
    IN  IF ~IsSome(ticker) THEN Outcome(e, "error", "OPEN_LONG", NoOrder)
        ELSE IF sizePct <= 0 THEN Outcome(e, "ignored", "OPEN_LONG", NoOrder)
        ELSE LET entry == DeriveEntryPrice(Get(ticker), decision.entry)
             IN  IF ~entry.isNumber \/ ~RPos(entry.v)
                 THEN Outcome(e, "error", "OPEN_LONG", NoOrder)
                 ELSE LET bal      == LoadBalances(e, FALSE, fetchedBal, t)
                          notional == ComputeNotional(bal.quote, RInt(sizePct))
                      IN  IF ~IsSome(notional) \/ RLt[Get(notional), RInt(MinNotional)]
                          THEN Outcome(bal.eng, "error", "OPEN_LONG", NoOrder)
                          ELSE LET quantity == RDiv[Get(notional), entry.v]
                               IN  IF ~RPos(quantity)
                                   THEN Outcome(bal.eng, "error", "OPEN_LONG", NoOrder)
                                   ELSE Outcome(bal.eng, "order", "OPEN_LONG",
                                          Some([req |-> [type |-> "buy",
                                                         ordertype |-> IF decision.entry.type = "limit"
                                                                       THEN "limit" ELSE "market",
                                                         price |-> IF decision.entry.type = "limit"
                                                                   THEN Some(entry.v) ELSE None,
                                                         volume |-> quantity],
                                                fill |-> [side |-> "buy", quantity |-> quantity,
                                                          price |-> entry.v],
                                                additive |-> additive]))

\* the market sell shared by #trimPosition and #closeAll
SellOrder(quantity, lastTrade) ==
    Some([req |-> [type |-> "sell", ordertype |-> "market", price |-> None,
                   volume |-> quantity],
          fill |-> [side |-> "sell", quantity |-> quantity, price |-> lastTrade],
          additive |-> FALSE])

\* #trimPosition up to the order call
TrimPosition(e, decision, close5m, fetchedTicker) ==
    LET pos     == e.position
        sizePct == IF IsSome(ToNumber(decision.size_pct))
                   THEN Get(ToNumber(decision.size_pct))
                   ELSE DefaultTrimPct
        quantity == RMul[pos.size, Rat[sizePct, 100]]
        ticker   == EnsureTicker(close5m, fetchedTicker)
    IN  IF pos.side # "LONG" \/ ~RPos(pos.size) THEN Outcome(e, "ignored", "TRIM", NoOrder)
        ELSE IF sizePct <= 0 THEN Outcome(e, "ignored", "TRIM", NoOrder)
        ELSE IF ~RPos(quantity) THEN Outcome(e, "ignored", "TRIM", NoOrder)
        ELSE IF ~IsSome(ticker) THEN Outcome(e, "error", "TRIM", NoOrder)
        ELSE Outcome(e, "order", "TRIM", SellOrder(quantity, Get(ticker)))

\* a #closeAll that books the position as closed before the order call
CloseAllBooksFirst(e, close5m, fetchedTicker) ==
    LET pos    == e.position
        ticker == EnsureTicker(close5m, fetchedTicker)
    IN  IF pos.side # "LONG" \/ ~RPos(pos.size) THEN Outcome(e, "ignored", "CLOSE_ALL", NoOrder)
        ELSE IF ~IsSome(ticker) THEN Outcome(e, "error", "CLOSE_ALL", NoOrder)
        ELSE Outcome([e EXCEPT !.position = EngineInit.position], "order", "CLOSE_ALL",
                     SellOrder(pos.size, Get(ticker)))
\* #closeAll up to the order call
CloseAll(e, close5m, fetchedTicker) ==
    LET pos    == e.position
        ticker == EnsureTicker(close5m, fetchedTicker)
    IN  IF pos.side # "LONG" \/ ~RPos(pos.size) THEN Outcome(e, "ignored", "CLOSE_ALL", NoOrder)
        ELSE IF ~IsSome(ticker) THEN Outcome(e, "error", "CLOSE_ALL", NoOrder)
        ELSE Outcome(e, "order", "CLOSE_ALL", SellOrder(pos.size, Get(ticker)))

\* an execute without the pause gate
PauseGateOff(e, decision, t) == FALSE

\* execute's pause gate: the action is rejected with status 'paused'
PauseGate(e, decision, t) == IsPaused(e, t) /\ decision.action # "PAUSE"

\* execute, up to the order call of the action it dispatches to.  status
\* "order" means the action reached bot.limitBuy / marketBuy / marketSell.
Execute(e, decision, close5m, fetchedTicker, fetchedBal, t) ==
    IF decision.action = "HOLD" \/ decision.action = ""
    THEN Outcome(e, "noop", "HOLD", NoOrder)
    ELSE IF PauseGate(e, decision, t)
    THEN Outcome(e, "paused", decision.action, NoOrder)
    ELSE CASE decision.action = "OPEN_LONG" ->
                OpenLong(e, decision, close5m, fetchedTicker, fetchedBal, FALSE, t)
           [] decision.action = "ADD" ->
                OpenLong(e, decision, close5m, fetchedTicker, fetchedBal, TRUE, t)
           [] decision.action \in {"TRIM", "CLOSE_PARTIAL"} ->
                TrimPosition(e, decision, close5m, fetchedTicker)
           [] decision.action = "CLOSE_ALL" -> CloseAll(e, close5m, fetchedTicker)
           [] decision.action \in {"MOVE_STOP", "SET_TP"} ->
                Outcome(e, "instruction", decision.action, NoOrder)
           [] decision.action = "PAUSE" ->
                Outcome(Pause(e, decision, t), "paused", "PAUSE", NoOrder)
           [] OTHER -> Outcome(e, "ignored", decision.action, NoOrder)

-----------------------------------------------------------------------------
(* EventEngine.js.  A reason is a record: its label and, for the labels    *)
(* that embed numbers, those numbers.  The pending reasons are kept as a   *)
(* set (the order of insertion is not modelled).                           *)

Reason(tag) == [tag |-> tag, a |-> 0, b |-> 0]
ReasonWith(tag, a, b) == [tag |-> tag, a |-> a, b |-> b]

NoLiquidity ==
    [sweepLow |-> FALSE, sweepHigh |-> FALSE,
     breakAndHoldHigh |-> FALSE, breakAndHoldLow |-> FALSE]

\* the state after the constructor; "null" stands for a null state label
EventEngineInit ==
    [lastBuckets |-> [m5 |-> None, m15 |-> None, m60 |-> None],
     lastTrendState |-> "null",
     lastVolState |-> "null",
     lastConfluence |-> None,
     lastLiquidity |-> NoLiquidity,
     lastDrawdownAlert |-> None,
     pendingReasonSet |-> {},
     lastEmitTs |-> 0]

\* #updateBucket: [changed, bucket]
UpdateBucket(lastBucket, timestamp, minutes) ==
    LET bucket == timestamp \div (minutes * MsPerMinute)
    IN  IF ~IsSome(lastBucket) \/ Get(lastBucket) # bucket
        THEN [changed |-> TRUE, bucket |-> Some(bucket)]
        ELSE [changed |-> FALSE, bucket |-> lastBucket]

\* a debounce gate that is always open
DebounceAlwaysElapsed(lastEmitTs, timestamp) == TRUE

\* the debounce gate of shouldEvaluate and #maybeEmit
DebounceElapsed(lastEmitTs, timestamp) == (timestamp - lastEmitTs) >= DebounceMs

\* the triggers list of shouldEvaluate, as a set
Triggers(c5, c15, c60, thresholdTriggered, release) ==
    (IF c5 THEN {"5m close"} ELSE {})
    \cup (IF c15 THEN {"15m close"} ELSE {})
    \cup (IF c60 THEN {"60m close"} ELSE {})
    \cup (IF thresholdTriggered THEN {"price-change threshold"} ELSE {})
    \cup (IF release THEN {"debounce release"} ELSE {})

\* shouldEvaluate without its debounce-release test
ShouldEvaluateWithoutRelease(e, timestamp, thresholdTriggered) ==
    LET b5  == UpdateBucket(e.lastBuckets.m5, timestamp, 5)
        b15 == UpdateBucket(e.lastBuckets.m15, timestamp, 15)
        b60 == UpdateBucket(e.lastBuckets.m60, timestamp, 60)
    IN  [ev |-> [e EXCEPT !.lastBuckets =
                    [m5 |-> b5.bucket, m15 |-> b15.bucket, m60 |-> b60.bucket]],
         evaluate |-> b5.changed \/ b15.changed \/ b60.changed
                      \/ thresholdTriggered,
         triggers |-> Triggers(b5.changed, b15.changed, b60.changed,
                               thresholdTriggered, FALSE)]

\* shouldEvaluate: [ev, evaluate, triggers]; timestamp as #extractTimestamp
\* gives it
ShouldEvaluate(e, timestamp, thresholdTriggered) ==
    LET b5  == UpdateBucket(e.lastBuckets.m5, timestamp, 5)
        b15 == UpdateBucket(e.lastBuckets.m15, timestamp, 15)
        b60 == UpdateBucket(e.lastBuckets.m60, timestamp, 60)
        release == e.pendingReasonSet # {} /\ DebounceElapsed(e.lastEmitTs, timestamp)
    IN  [ev |-> [e EXCEPT !.lastBuckets =
                    [m5 |-> b5.bucket, m15 |-> b15.bucket, m60 |-> b60.bucket]],
         evaluate |-> b5.changed \/ b15.changed \/ b60.changed
                      \/ thresholdTriggered \/ release,
         triggers |-> Triggers(b5.changed, b15.changed, b60.changed,
                               thresholdTriggered, release)]

\* #evaluateTrend: [state, reasons]
EvaluateTrend(lastTrendState, snapshot) ==
    IF snapshot.trend = "null" THEN [state |-> lastTrendState, reasons |-> {}]
    ELSE [state |-> snapshot.trend,
          reasons |->
             IF lastTrendState # "null" /\ lastTrendState # snapshot.trend
             THEN {Reason(IF snapshot.trend = "bull" THEN "TrendFlip-Up(15m)"
                          ELSE IF snapshot.trend = "bear" THEN "TrendFlip-Down(15m)"
                          ELSE "TrendFlip-Neutral(15m)")}
             ELSE {}]

\* #evaluateVolatility: [state, reasons]
EvaluateVolatility(lastVolState, snapshot) ==
    LET v == snapshot.volatility
        label == IF v = "high" THEN "VolatilityRegimeHigh(15m)"
                 ELSE IF v = "low" THEN "VolatilityRegimeLow(15m)"
                 ELSE "VolatilityRegimeNormal(15m)"
    IN  IF v = "null" THEN [state |-> lastVolState, reasons |-> {}]
        ELSE [state |-> v,
              reasons |->
                 IF lastVolState # "null" /\ lastVolState # v THEN {Reason(label)}
                 ELSE IF lastVolState = "null" /\ v \in {"high", "low"}
                 THEN {Reason(label)}
                 ELSE {}]

\* #evaluateConfluence: [state, reasons]
EvaluateConfluence(lastConfluence, snapshot) ==
    IF ~IsSome(snapshot.score) THEN [state |-> lastConfluence, reasons |-> {}]
    ELSE LET score == Get(snapshot.score)
         IN  [state |-> snapshot.score,
              reasons |->
                 IF IsSome(lastConfluence)
                    /\ Abs(score - Get(lastConfluence)) >= ConfluenceDelta
                 THEN {ReasonWith("ConfluenceDelta", Get(lastConfluence), score)}
                 ELSE {}]

\* the reason a liquidity flag gives when it is set now and was not before
FlagReason(tag, isSet, wasSet) == IF isSet /\ ~wasSet THEN {Reason(tag)} ELSE {}

\* #evaluateLiquidity: [state, reasons]
\* #evaluateLiquidity without the assignment to lastLiquidity at its end
EvaluateLiquidityKeepsState(lastLiquidity, snapshot) ==
    LET l == snapshot.liquidity
    IN  [state |-> lastLiquidity,
         reasons |->
            FlagReason("LiquiditySweep(Low)", l.sweepLow, lastLiquidity.sweepLow)
            \cup FlagReason("LiquiditySweep(High)", l.sweepHigh, lastLiquidity.sweepHigh)
            \cup FlagReason("BreakAndHold(High)", l.breakAndHoldHigh,
                            lastLiquidity.breakAndHoldHigh)
            \cup FlagReason("BreakAndHold(Low)", l.breakAndHoldLow,
                            lastLiquidity.breakAndHoldLow)]

EvaluateLiquidity(lastLiquidity, snapshot) ==
    LET l == snapshot.liquidity
    IN  [state |-> l,
         reasons |->
            FlagReason("LiquiditySweep(Low)", l.sweepLow, lastLiquidity.sweepLow)
            \cup FlagReason("LiquiditySweep(High)", l.sweepHigh, lastLiquidity.sweepHigh)
            \cup FlagReason("BreakAndHold(High)", l.breakAndHoldHigh,
                            lastLiquidity.breakAndHoldHigh)
            \cup FlagReason("BreakAndHold(Low)", l.breakAndHoldLow,
                            lastLiquidity.breakAndHoldLow)]

\* drawdown.toFixed(2), as a count of hundredths, rounded half away from zero
ToHundredths(x) ==
    IF RLt[x, RZero] THEN 0 - RFloor(RAdd[RMul[RSub[RZero, x], RInt(100)], Rat[1, 2]])
    ELSE RFloor(RAdd[RMul[x, RInt(100)], Rat[1, 2]])

\* #evaluateRisk: [state, reasons]; state is lastDrawdownAlert
EvaluateRisk(lastDrawdownAlert, snapshot) ==
    IF ~IsSome(snapshot.risk) THEN [state |-> lastDrawdownAlert, reasons |-> {}]
    ELSE LET risk == Get(snapshot.risk)
             dd   == risk.dailyPnlPct
             hit  == IsSome(dd) /\ RLe[Get(dd), RInt(0 - DrawdownGuard)]
             key  == ReasonWith("DrawdownGuardrail", ToHundredths(Get(dd)), 0)
             alert == IF hit THEN Some(key)
                      ELSE IF IsSome(dd) THEN None
                      ELSE lastDrawdownAlert
             unrealized == IF IsSome(risk.unrealizedR) THEN Get(risk.unrealizedR)
                           ELSE RZero
             absUnrealized == IF RLt[unrealized, RZero] THEN RSub[RZero, unrealized]
                              ELSE unrealized
             timeStop == IsSome(risk.positionAgeBars5m)
                         /\ Get(risk.positionAgeBars5m) >= PositionAgeBars
                         /\ RLt[absUnrealized, Rat[1, 2]]
         IN  [state |-> alert,
              reasons |->
                 (IF hit /\ lastDrawdownAlert # Some(key) THEN {key} ELSE {})
                 \cup (IF timeStop
                       THEN {ReasonWith("TimeStop", Get(risk.positionAgeBars5m), 0)}
                       ELSE {})]

\* #maybeEmit: [ev, emitted]
MaybeEmit(e, timestamp) ==
    IF e.pendingReasonSet = {} THEN [ev |-> e, emitted |-> {}]
    ELSE IF e.lastEmitTs = 0 \/ DebounceElapsed(e.lastEmitTs, timestamp)
    THEN [ev |-> [e EXCEPT !.pendingReasonSet = {}, !.lastEmitTs = timestamp],
          emitted |-> e.pendingReasonSet]
    ELSE [ev |-> e, emitted |-> {}]

\* detect(snapshot, meta): [ev, emitted, timestamp, reasons], reasons being
\* the ones this call added to the pending set.  snapshot.timestamp 0 is
\* an absent or falsy timestamp, replaced by Date.now().
Detect(e, snapshot, thresholdTriggered, t) ==
    LET timestamp == IF snapshot.timestamp # 0 THEN snapshot.timestamp ELSE t
        trend == EvaluateTrend(e.lastTrendState, snapshot)
        vol   == EvaluateVolatility(e.lastVolState, snapshot)
        conf  == EvaluateConfluence(e.lastConfluence, snapshot)
        liq   == EvaluateLiquidity(e.lastLiquidity, snapshot)
        risk  == EvaluateRisk(e.lastDrawdownAlert, snapshot)
        reasons == trend.reasons \cup vol.reasons \cup conf.reasons
                   \cup liq.reasons \cup risk.reasons
                   \cup (IF thresholdTriggered
                         THEN {Reason("MomentumSpike(PriceFeed)")} ELSE {})
        e1 == [e EXCEPT !.lastTrendState = trend.state,
                        !.lastVolState = vol.state,
                        !.lastConfluence = conf.state,
                        !.lastLiquidity = liq.state,
                        !.lastDrawdownAlert = risk.state,
                        !.pendingReasonSet = @ \cup reasons]
        out == MaybeEmit(e1, timestamp)
    IN  [ev |-> out.ev, emitted |-> out.emitted, timestamp |-> timestamp,
         reasons |-> reasons]

\* a reset() that puts every field back to what the constructor set
ResetToConstructed(e) == EventEngineInit

\* reset()
Reset(e) ==
    [e EXCEPT !.lastTrendState = "null",
              !.lastVolState = "null",
              !.lastConfluence = None,
              !.lastLiquidity = NoLiquidity,
              !.pendingReasonSet = {},
              !.lastEmitTs = 0]

-----------------------------------------------------------------------------
(* Inputs of the execution model *)

Prices == {TickerLow, TickerHigh}

\* context.features' 5m close and, when that is absent, what bot.fetchTicker()
\* answers (None: it throws)
TickerInputs ==
    { [close5m |-> None, fetched |-> None],
      [close5m |-> None, fetched |-> Some(TickerHigh)],
      [close5m |-> Some(TickerLow), fetched |-> None] }

\* what bot.fetchBalances() reports as quote balance (None: it throws)
FetchedBalances == {None, Some(BalanceHigh), Some(BalanceLow)}

CacheFresh(e, t) == IsSome(e.lastBalances) /\ (t - e.lastBalanceTs) < CacheDurationMs

\* decision.entry: null, or an object with a type and an offset_bps
NoEntry == [type |-> "none", offset_bps |-> JsUndefined]
EntryOf(type, offset) == [type |-> type, offset_bps |-> offset]

Decision(action, size, entry, minutes) ==
    [action |-> action, size_pct |-> size, entry |-> entry, minutes |-> minutes]

\* decisions handed to execute: size_pct, minutes and offset_bps absent, null
\* or a number (LLMDecider.#normaliseDecision hands over size_pct null or a
\* number), and an action outside the allowed set
Decisions ==
    { Decision("HOLD", JsUndefined, NoEntry, JsUndefined),
      Decision("OPEN_LONG", JsUndefined, EntryOf("limit", JsUndefined), JsUndefined),
      Decision("OPEN_LONG", JsNum(DefaultSizePct), EntryOf("limit", JsNum(-5)), JsUndefined),
      Decision("OPEN_LONG", JsNum(DefaultSizePct), EntryOf("limit", JsUndefined), JsUndefined),
      Decision("OPEN_LONG", JsNull, NoEntry, JsUndefined),
      Decision("ADD", JsNum(DefaultSizePct), EntryOf("market", JsUndefined), JsUndefined),
      Decision("TRIM", JsUndefined, NoEntry, JsUndefined),
      Decision("CLOSE_PARTIAL", JsNum(DefaultSizePct), NoEntry, JsUndefined),
      Decision("CLOSE_ALL", JsUndefined, NoEntry, JsUndefined),
      Decision("MOVE_STOP", JsUndefined, NoEntry, JsUndefined),
      Decision("SET_TP", JsUndefined, NoEntry, JsUndefined),
      Decision("PAUSE", JsUndefined, NoEntry, JsUndefined),
      Decision("PAUSE", JsUndefined, NoEntry, JsNull),
      Decision("PAUSE", JsUndefined, NoEntry, JsNum(LongPauseMinutes)),
      Decision("REBALANCE", JsUndefined, NoEntry, JsUndefined) }

\* fill notifications handed to handleFill that match no order of this bot
ExternalFills ==
    { None,
      Some([side |-> "buy",  quantity |-> FillQtyLarge, price |-> TickerHigh]),
      Some([side |-> "sell", quantity |-> FillQtySmall, price |-> TickerLow]),
      Some([side |-> "buy",  quantity |-> RZero, price |-> TickerLow]),
      Some([side |-> "hold", quantity |-> FillQtySmall, price |-> TickerLow]) }

DirectRequests ==
    { [type |-> "buy",  ordertype |-> "market", price |-> None, volume |-> FillQtyLarge],
      [type |-> "sell", ordertype |-> "limit", price |-> Some(TickerHigh),
       volume |-> FillQtySmall] }

\* the clock advances in steps of the cooldown length
ClockSteps == {PauseMinutes * MsPerMinute}

-----------------------------------------------------------------------------
(* History of cash flows: what an applied fill adds to the net cash paid *)

NetCashAfter(total, e, side, quantity, price) ==
    IF ~RPos(quantity) \/ ~RPos(price) THEN total
    ELSE IF side = "buy" THEN RAdd[total, RMul[quantity, price]]
    ELSE IF side = "sell" THEN RSub[total, RMul[price, RMin[quantity, e.position.size]]]
    ELSE total

\* the record kept of the last operation: kind of call, the decision's action,
\* the fill's side, whether the engine was paused when called, whether the
\* order of a notified fill had already been applied locally, the status
\* returned, whether the call threw, and what _submitOrder answered (if it
\* was called and returned); for execute also the decision's size_pct and
\* the side, quantity and price of the order the engine asked for
Last(kind, action, side, wasPaused, assumed, status, thrown, response) ==
    [kind |-> kind, action |-> action, side |-> side, wasPaused |-> wasPaused,
     assumed |-> assumed, status |-> status, thrown |-> thrown,
     response |-> response, size_pct |-> JsUndefined, order |-> None]

-----------------------------------------------------------------------------
(* Actions of the execution model *)

ExecInit ==
    /\ now = StartTime
    /\ dryRun \in BOOLEAN
    /\ eng = EngineInit
    /\ openOrders = {}
    /\ addOrderCalls = 0
    /\ last = Last("init", "none", "none", FALSE, FALSE, "none", FALSE, None)
    /\ opCount = 0
    /\ netCash = RZero

\* ExecutionEngine.execute(decision, context); ok: the REST AddOrder request of
\* a live order succeeds (otherwise data.addOrder throws through execute)
DoExecute(decision, close5m, fetchedTicker, fetchedBal, ok) ==
    /\ opCount < MaxOps
    /\ opCount' = opCount + 1
    /\ \E out \in {Execute(eng, decision, close5m, fetchedTicker, fetchedBal, now)},
          paused \in {IsPaused(eng, now)}, act \in {decision.action} :
           IF out.status # "order"
           THEN /\ eng' = out.eng
                /\ last' = [Last("execute", act, "none", paused, FALSE, out.status,
                                  FALSE, None)
                             EXCEPT !.size_pct = decision.size_pct]
                /\ UNCHANGED <<addOrderCalls, netCash, openOrders>>
           ELSE \E ord \in {Get(out.order)}, live \in {~SubmitIsDryRun(dryRun)} :
                \E built   \in {BuildPayload(ord.req)},
                   applies \in {~live \/ (ok /\ ~ord.additive)},
                   applied \in {ApplyFill(out.eng, ord.fill.side, ord.fill.quantity,
                                          ord.fill.price, TRUE, now)} :
                    IF built.thrown \/ (live /\ ~ok)
                    THEN /\ eng' = out.eng
                         /\ addOrderCalls' = IF built.thrown THEN addOrderCalls
                                             ELSE addOrderCalls + 1
                         /\ last' = [Last("execute", act, "none", paused, FALSE,
                                          "thrown", TRUE, None)
                                      EXCEPT !.size_pct = decision.size_pct,
                                             !.order = Some(ord.fill)]
                         /\ UNCHANGED <<netCash, openOrders>>
                    ELSE /\ eng' = IF applies THEN applied ELSE out.eng
                         /\ netCash' = IF applies
                                       THEN NetCashAfter(netCash, out.eng, ord.fill.side,
                                                         ord.fill.quantity, ord.fill.price)
                                       ELSE netCash
                         /\ addOrderCalls' = IF live THEN addOrderCalls + 1
                                             ELSE addOrderCalls
                         /\ openOrders' = IF live
                              THEN openOrders \cup
                                   {[side |-> built.payload.type,
                                     volume |-> built.payload.volume,
                                     assumed |-> applies]}
                              ELSE openOrders
                         /\ last' = [Last("execute", act,
                                          IF applies THEN ord.fill.side ELSE "none",
                                          paused, applies,
                                          IF live THEN "submitted" ELSE "dry-run", FALSE,
                                          Some([dryRun |-> ~live, payload |-> built.payload]))
                                      EXCEPT !.size_pct = decision.size_pct,
                                             !.order = Some(ord.fill)]
    /\ UNCHANGED <<now, dryRun>>

\* LLMBot.onOrderFill -> handleFill with the exchange's notification of the fill
\* of an order this bot placed
DoOrderFill(o, price) ==
    /\ o \in openOrders
    /\ opCount < MaxOps
    /\ opCount' = opCount + 1
    /\ openOrders' = openOrders \ {o}
    /\ eng' = HandleFill(eng, Some([side |-> o.side, quantity |-> o.volume,
                                    price |-> price]), now)
    /\ netCash' = NetCashAfter(netCash, eng, o.side, o.volume, price)
    /\ last' = Last("fill", "none", o.side, IsPaused(eng, now), o.assumed,
                    "none", FALSE, None)
    /\ UNCHANGED <<now, dryRun, addOrderCalls>>

\* handleFill with a notification that matches no order of this bot
DoExternalFill(fill) ==
    /\ opCount < MaxOps
    /\ opCount' = opCount + 1
    /\ eng' = HandleFill(eng, fill, now)
    /\ LET side == IF IsSome(fill) /\ Get(fill).side \in {"buy", "sell"}
                   THEN Get(fill).side ELSE "none"
           qty  == IF IsSome(fill) THEN Get(fill).quantity ELSE RZero
           prc  == IF IsSome(fill) THEN Get(fill).price ELSE RZero
       IN  /\ netCash' = NetCashAfter(netCash, eng, side, qty, prc)
           /\ last' = Last("fill", "none", IF RPos(qty) THEN side ELSE "none",
                           IsPaused(eng, now), FALSE, "none", FALSE, None)
    /\ UNCHANGED <<now, dryRun, openOrders, addOrderCalls>>

\* Bot.marketBuy / marketSell / limitBuy / limitSell called directly; ok: the
\* REST AddOrder request of a live order succeeds
DoDirectOrder(req, ok) ==
    /\ opCount < MaxOps
    /\ opCount' = opCount + 1
    /\ LET built == BuildPayload(req)
           asked == Some([side |-> req.type, quantity |-> req.volume,
                          price |-> IF IsSome(req.price) THEN Get(req.price) ELSE RZero])
       IN  IF built.thrown
           THEN /\ last' = [Last("direct", "none", req.type, FALSE, FALSE, "none", TRUE, None)
                             EXCEPT !.order = asked]
                /\ UNCHANGED <<addOrderCalls, openOrders>>
           ELSE IF SubmitIsDryRun(dryRun)
           THEN /\ last' = [Last("direct", "none", req.type, FALSE, FALSE, "none", FALSE,
                                 Some([dryRun |-> TRUE, payload |-> built.payload]))
                             EXCEPT !.order = asked]
                /\ UNCHANGED <<addOrderCalls, openOrders>>
           ELSE /\ addOrderCalls' = addOrderCalls + 1
                /\ last' = [Last("direct", "none", req.type, FALSE, FALSE, "none", ~ok,
                                 IF ok THEN Some([dryRun |-> FALSE, payload |-> built.payload])
                                 ELSE None)
                             EXCEPT !.order = asked]
                /\ openOrders' = IF ok
                     THEN openOrders \cup {[side |-> req.type,
                                            volume |-> built.payload.volume,
                                            assumed |-> FALSE]}
                     ELSE openOrders
    /\ UNCHANGED <<now, dryRun, eng, netCash>>

\* time passes
AdvanceClock(delta) ==
    /\ opCount < MaxOps
    /\ opCount' = opCount + 1
    /\ now' = now + delta
    /\ UNCHANGED <<dryRun, eng, openOrders, addOrderCalls, last, netCash>>

\* a balance read fetches only when the cache is stale
FetchChoices(force) ==
    IF ~force /\ CacheFresh(eng, now) THEN {None} ELSE FetchedBalances

\* the actions of a decision that read the market and may submit an order
OrderActions == {"OPEN_LONG", "ADD", "TRIM", "CLOSE_PARTIAL", "CLOSE_ALL"}

\* the environment answers only what the call asks of it: the ticker and the
\* REST answer for an order action, the balances for a buy, and a REST answer
\* only when orders are live
TickerChoices(d) ==
    IF d.action \in OrderActions THEN TickerInputs
    ELSE {[close5m |-> None, fetched |-> None]}

BalanceChoices(d) ==
    IF d.action \in {"OPEN_LONG", "ADD"} THEN FetchChoices(FALSE) ELSE {None}

AnswerChoices(isOrder) == IF isOrder /\ ~dryRun THEN BOOLEAN ELSE {TRUE}

\* the other components stay as they are while the execution engine runs
ExecFrame == UNCHANGED <<evVars, botVars, monVars, restVars, pairVars, sideVars>>

ExecNext ==
    \/ \E d \in Decisions : \E tk \in TickerChoices(d), b \in BalanceChoices(d),
          ok \in AnswerChoices(d.action \in OrderActions) :
             DoExecute(d, tk.close5m, tk.fetched, b, ok) /\ ExecFrame
    \/ \E o \in openOrders, p \in Prices : DoOrderFill(o, p) /\ ExecFrame
    \/ \E f \in ExternalFills : DoExternalFill(f) /\ ExecFrame
    \/ \E r \in DirectRequests, ok \in AnswerChoices(TRUE) :
          DoDirectOrder(r, ok) /\ ExecFrame
    \/ \E delta \in ClockSteps : AdvanceClock(delta) /\ ExecFrame

-----------------------------------------------------------------------------
(* Inputs and actions of the event-engine model *)

Snapshot(timestamp, trend, volatility, score, liquidity, risk) ==
    [timestamp |-> timestamp, trend |-> trend, volatility |-> volatility,
     score |-> score, liquidity |-> liquidity, risk |-> risk]

Risk(dailyPnlPct, positionAgeBars5m, unrealizedR) ==
    [dailyPnlPct |-> dailyPnlPct, positionAgeBars5m |-> positionAgeBars5m,
     unrealizedR |-> unrealizedR]

\* what a snapshot may carry besides its timestamp: a trend, a volatility
\* regime with a confluence score, a liquidity sweep with a moved score, the
\* other liquidity flags, a drawdown beyond the guard on an old position, a
\* drawdown at the guard, or nothing
SnapshotBodies(ts) ==
    { Snapshot(ts, "bull", "null", None, NoLiquidity, None),
      Snapshot(ts, "bear", "null", None, NoLiquidity, None),
      Snapshot(ts, "null", "high", Some(1), NoLiquidity, None),
      Snapshot(ts, "null", "null", Some(1 + ConfluenceDelta),
               [NoLiquidity EXCEPT !.sweepLow = TRUE], None),
      Snapshot(ts, "null", "null", None,
               [sweepLow |-> FALSE, sweepHigh |-> TRUE,
                breakAndHoldHigh |-> TRUE, breakAndHoldLow |-> TRUE], None),
      Snapshot(ts, "null", "null", None, NoLiquidity,
               Some(Risk(Some(RInt(0 - DrawdownGuard - 1)), Some(PositionAgeBars),
                         None))),
      Snapshot(ts, "null", "null", None, NoLiquidity,
               Some(Risk(Some(RInt(0 - DrawdownGuard)), None, None))),
      Snapshot(ts, "null", "null", None, NoLiquidity, None) }

\* snapshot timestamps: absent (0, detect then reads the clock), one debounce
\* window before the start, one window after it
SnapshotTimes == {0, StartTime - DebounceMs, StartTime + DebounceMs}

\* detect is handed a snapshot, or null
DetectInputs == {None} \cup {Some(sn) : sn \in UNION {SnapshotBodies(ts) : ts \in SnapshotTimes}}

\* priceData timestamps: absent (0, shouldEvaluate then reads the clock) or a
\* candle of the next 5-minute bucket
PriceTimes == {0, StartTime + 5 * MsPerMinute}

\* the record of the last call: which, what shouldEvaluate returned, what
\* detect emitted and with which timestamp, the reasons detect found, and
\* the meta.thresholdTriggered shouldEvaluate was handed with the triggers it
\* found
EvLast(kind, evaluate, emitted, timestamp, reasons) ==
    [kind |-> kind, evaluate |-> evaluate, emitted |-> emitted,
     timestamp |-> timestamp, reasons |-> reasons,
     thresholdTriggered |-> FALSE, triggers |-> {}]

\* what the history keeps of a snapshot
Seen(snapshot) ==
    Some([liquidity |-> snapshot.liquidity,
          dailyPnlPct |-> IF IsSome(snapshot.risk) THEN Get(snapshot.risk).dailyPnlPct
                          ELSE None])

EvInit ==
    /\ ev = EventEngineInit
    /\ emitLog = <<>>
    /\ evLast = EvLast("init", FALSE, {}, 0, {})
    /\ seen = None
    /\ evOps = 0

\* EventEngine.detect(snapshot, meta)
DetectCall(snapshot, thresholdTriggered) ==
    /\ evOps' = evOps + 1
    /\ IF ~IsSome(snapshot)
       THEN /\ evLast' = EvLast("detect", FALSE, {}, 0, {})
            /\ UNCHANGED <<ev, emitLog, seen>>
       ELSE LET out == Detect(ev, Get(snapshot), thresholdTriggered, now)
            IN  /\ ev' = out.ev
                /\ emitLog' = IF out.emitted # {} THEN Append(emitLog, out.timestamp)
                              ELSE emitLog
                /\ evLast' = EvLast("detect", FALSE, out.emitted, out.timestamp,
                                     out.reasons)
                /\ seen' = Seen(Get(snapshot))
    /\ UNCHANGED execVars

DoDetect(snapshot, thresholdTriggered) ==
    /\ evOps < MaxEvOps
    /\ DetectCall(snapshot, thresholdTriggered)

\* EventEngine.shouldEvaluate(priceData, meta)
ShouldEvaluateCall(priceTime, thresholdTriggered) ==
    /\ evOps' = evOps + 1
    /\ LET timestamp == IF priceTime # 0 THEN priceTime ELSE now
           out == ShouldEvaluate(ev, timestamp, thresholdTriggered)
       IN  /\ ev' = out.ev
           /\ evLast' = [EvLast("shouldEvaluate", out.evaluate, {}, timestamp, {})
                            EXCEPT !.thresholdTriggered = thresholdTriggered,
                                   !.triggers = out.triggers]
    /\ UNCHANGED <<emitLog, seen, execVars>>

DoShouldEvaluate(priceTime, thresholdTriggered) ==
    /\ evOps < MaxEvOps
    /\ ShouldEvaluateCall(priceTime, thresholdTriggered)

\* EventEngine.reset()
DoReset ==
    /\ evOps < MaxEvOps
    /\ evOps' = evOps + 1
    /\ ev' = Reset(ev)
    /\ emitLog' = <<>>
    /\ evLast' = EvLast("reset", FALSE, {}, 0, {})
    /\ seen' = None
    /\ UNCHANGED execVars

\* time passes, half a debounce window at a time
ClockStep ==
    /\ evOps' = evOps + 1
    /\ now' = now + DebounceMs \div 2
    /\ UNCHANGED <<dryRun, eng, openOrders, addOrderCalls, last, opCount, netCash>>
    /\ UNCHANGED <<ev, emitLog, evLast, seen>>

EvAdvanceClock ==
    /\ evOps < MaxEvOps
    /\ ClockStep

\* the bot and the monitor stay as they are while the event engine is called
EvFrame == UNCHANGED <<botVars, monVars, restVars, pairVars, sideVars>>

EvNext ==
    \/ \E sn \in DetectInputs, thr \in BOOLEAN : DoDetect(sn, thr) /\ EvFrame
    \/ \E pt \in PriceTimes, thr \in BOOLEAN : DoShouldEvaluate(pt, thr) /\ EvFrame
    \/ DoReset /\ EvFrame
    \/ EvAdvanceClock /\ EvFrame

\* price ticks between detect calls: the snapshots carry no time of their
\* own and differ in their reasons, so that the second of two detect calls
\* in one debounce window leaves its reason pending
TickSnapshots ==
    { Some(Snapshot(0, "null", "null", None,
                    [NoLiquidity EXCEPT !.sweepLow = TRUE], None)),
      Some(Snapshot(0, "null", "null", None,
                    [NoLiquidity EXCEPT !.sweepHigh = TRUE], None)) }

TickNext ==
    \/ \E sn \in TickSnapshots :
          evOps < MaxTickOps /\ DetectCall(sn, FALSE) /\ EvFrame
    \/ \E pt \in PriceTimes, thr \in BOOLEAN :
          evOps < MaxTickOps /\ ShouldEvaluateCall(pt, thr) /\ EvFrame
    \/ evOps < MaxTickOps /\ ClockStep /\ EvFrame

-----------------------------------------------------------------------------
(* llm-bot.js: the evaluation cycle.  Every invocation of                  *)
(* _runEvaluationCycle that passes the guard occupies a slot; pc is the    *)
(* await it is suspended at.                                               *)

Slots == 1..MaxCycles

IdleCycle ==
    [pc |-> "idle", thresholdTriggered |-> FALSE, override |-> {},
     timestamp |-> 0, snapshot |-> None, close5m |-> None, decision |-> None]

ActiveCycles == {c \in Slots : cycles[c].pc # "idle"}

\* a _runEvaluationCycle without its guard
CycleGuardOff(p) == FALSE

\* the guard of _runEvaluationCycle: return when a cycle is in progress
CycleGuard(p) == p

BotLast(kind, evaluate, thresholdTriggered, skipped) ==
    [kind |-> kind, evaluate |-> evaluate,
     thresholdTriggered |-> thresholdTriggered, skipped |-> skipped]

BotInit ==
    /\ processing = FALSE
    /\ cycles = [c \in Slots |-> IdleCycle]
    /\ botLast = BotLast("init", FALSE, FALSE, FALSE)
    /\ botOps = 0
    /\ deciderCalls = 0

\* _runEvaluationCycle({meta, reasonsOverride}) up to its first await: the
\* guard, processing = true, and the call of featureBuilder.build, which
\* reads the clock for the snapshot's timestamp
RunEvaluationCycle(thresholdTriggered, override) ==
    IF CycleGuard(processing)
    THEN UNCHANGED <<processing, cycles>>
    ELSE /\ \E c \in Slots : cycles[c].pc = "idle"
         /\ LET c == CHOOSE k \in Slots :
                        /\ cycles[k].pc = "idle"
                        /\ \A j \in Slots : cycles[j].pc = "idle" => k <= j
            IN  cycles' = [cycles EXCEPT ![c] =
                              [IdleCycle EXCEPT !.pc = "build",
                                                !.timestamp = now,
                                                !.thresholdTriggered = thresholdTriggered,
                                                !.override = override]]
         /\ processing' = TRUE

\* onPriceUpdate(priceData, meta)
OnPriceUpdate(priceTime, thresholdTriggered) ==
    /\ botOps < MaxBotOps
    /\ botOps' = botOps + 1
    /\ LET timestamp == IF priceTime # 0 THEN priceTime ELSE now
           out == ShouldEvaluate(ev, timestamp, thresholdTriggered)
       IN  /\ ev' = out.ev
           /\ IF out.evaluate
              THEN /\ RunEvaluationCycle(thresholdTriggered, {})
                   /\ botLast' = BotLast("price", TRUE, thresholdTriggered,
                                         CycleGuard(processing))
              ELSE /\ UNCHANGED <<processing, cycles>>
                   /\ botLast' = BotLast("price", FALSE, thresholdTriggered, FALSE)
    /\ UNCHANGED <<execVars, emitLog, evLast, seen, evOps, deciderCalls>>

\* triggerEvaluation(reasons, meta): the startup call, the periodic timer, or
\* a manual call
TriggerEvaluation(tag) ==
    /\ botOps < MaxBotOps
    /\ botOps' = botOps + 1
    /\ RunEvaluationCycle(FALSE, {Reason(tag)})
    /\ botLast' = BotLast("trigger", TRUE, FALSE, CycleGuard(processing))
    /\ UNCHANGED <<execVars, evVars, deciderCalls>>

\* a cycle whose exit leaves the flag set
FinallyKeepsFlag(c) ==
    /\ UNCHANGED processing
    /\ cycles' = [cycles EXCEPT ![c] = IdleCycle]

\* the finally block: processing = false; the invocation has returned
Finally(c) ==
    /\ processing' = FALSE
    /\ cycles' = [cycles EXCEPT ![c] = IdleCycle]

\* the snapshot featureBuilder.build resolves to: stamped with the Date.now()
\* of its call, a trend from the market, the engine's risk state
BuiltSnapshot(timestamp, trend) ==
    Snapshot(timestamp, trend, "null", None, NoLiquidity,
             Some(Risk(Some(eng.dailyPnlPct), Some(0), Some(RZero))))

\* featureBuilder.build resolves (ok) or rejects; on success the cycle calls
\* ensureBalanceSnapshot
CycleBuilt(c, ok, trend, close5m) ==
    /\ cycles[c].pc = "build"
    /\ IF ok
       THEN /\ cycles' = [cycles EXCEPT ![c].pc = "balance",
                                        ![c].snapshot = Some(BuiltSnapshot(cycles[c].timestamp, trend)),
                                        ![c].close5m = close5m]
            /\ UNCHANGED processing
       ELSE Finally(c)
    /\ UNCHANGED <<execVars, evVars, botLast, botOps, deciderCalls>>

\* the reasons of a cycle: detect's, with those of a reasonsOverride that is
\* a non-empty array (override, {} otherwise) added
MergeReasons(engineReasons, override) ==
    IF override # {} THEN engineReasons \cup override ELSE engineReasons

\* ensureBalanceSnapshot resolves; then updateMarketContext, detect, the merge
\* with reasonsOverride, and either the return for no reasons or the call of
\* llmDecider.decide
CycleDetect(c, fetchedBal) ==
    /\ cycles[c].pc = "balance"
    /\ LET cy  == cycles[c]
           out == Detect(ev, Get(cy.snapshot), cy.thresholdTriggered, now)
           reasons == MergeReasons(out.emitted, cy.override)
       IN  /\ eng' = LoadBalances(eng, FALSE, fetchedBal, now).eng
           /\ ev' = out.ev
           /\ emitLog' = IF out.emitted # {} THEN Append(emitLog, out.timestamp)
                         ELSE emitLog
           /\ seen' = Seen(Get(cy.snapshot))
           /\ IF reasons = {}
              THEN Finally(c) /\ UNCHANGED deciderCalls
              ELSE /\ cycles' = [cycles EXCEPT ![c].pc = "decide"]
                   /\ deciderCalls' = deciderCalls + 1
                   /\ UNCHANGED processing
    /\ UNCHANGED <<now, dryRun, openOrders, addOrderCalls, last, opCount, netCash>>
    /\ UNCHANGED <<evLast, evOps, botLast, botOps>>

\* llmDecider.decide resolves with a decision (ok) or rejects; on success the
\* cycle awaits decisionLogger.logDecision
CycleDecided(c, ok, decision) ==
    /\ cycles[c].pc = "decide"
    /\ IF ok
       THEN /\ cycles' = [cycles EXCEPT ![c].pc = "log", ![c].decision = Some(decision)]
            /\ UNCHANGED processing
       ELSE Finally(c)
    /\ UNCHANGED <<execVars, evVars, botLast, botOps, deciderCalls>>

\* logDecision settles (a failure is caught); reportStatus, then
\* execution.execute(decision, context), and the finally block
CycleExecute(c, fetchedTicker, fetchedBal, ok) ==
    /\ cycles[c].pc = "log"
    /\ DoExecute(Get(cycles[c].decision), cycles[c].close5m, fetchedTicker, fetchedBal, ok)
    /\ Finally(c)
    /\ UNCHANGED <<evVars, botLast, botOps, deciderCalls>>

\* time passes, a debounce window at a time
BotAdvanceClock ==
    /\ botOps < MaxBotOps
    /\ botOps' = botOps + 1
    /\ now' = now + DebounceMs
    /\ botLast' = BotLast("clock", FALSE, FALSE, FALSE)
    /\ UNCHANGED <<dryRun, eng, openOrders, addOrderCalls, last, opCount, netCash>>
    /\ UNCHANGED <<evVars, processing, cycles, deciderCalls>>

\* what the decider answers
DeciderAnswers ==
    { Decision("HOLD", JsUndefined, NoEntry, JsUndefined),
      Decision("OPEN_LONG", JsNum(DefaultSizePct), EntryOf("market", JsUndefined),
               JsUndefined) }

TriggerTags == {"Periodic", "Manual"}
Trends == {"bull", "bear"}

\* the monitor stays as it is while the bot runs
BotFrame == UNCHANGED <<monVars, restVars, pairVars, sideVars>>

BotNext ==
    \/ \E pt \in PriceTimes, thr \in BOOLEAN : OnPriceUpdate(pt, thr) /\ BotFrame
    \/ \E tag \in TriggerTags : TriggerEvaluation(tag) /\ BotFrame
    \/ \E c \in Slots, ok \in BOOLEAN, trend \in Trends :
          CycleBuilt(c, ok, trend, Some(TickerLow)) /\ BotFrame
    \/ \E c \in Slots, b \in FetchChoices(FALSE) : CycleDetect(c, b) /\ BotFrame
    \/ \E c \in Slots, ok \in BOOLEAN, d \in DeciderAnswers :
          CycleDecided(c, ok, d) /\ BotFrame
    \/ \E c \in Slots, b \in FetchChoices(FALSE), ok \in AnswerChoices(TRUE) :
          CycleExecute(c, None, b, ok) /\ BotFrame
    \/ BotAdvanceClock /\ BotFrame

-----------------------------------------------------------------------------
(* KrakenMonitor: the public socket and the OHLC / book subscriptions.     *)
(* A feed is a key of _priceHandlers (channel "ohlc") or of _bookHandlers  *)
(* (channel "book"); it is registered while it has handlers.               *)

\* Strings are sequences of characters.  toUpperCase, for the letters the
\* modelled pairs are spelled with
UpperChar(c) ==
    CASE c = "d" -> "D" [] c = "o" -> "O" [] c = "g" -> "G" [] c = "e" -> "E"
      [] c = "u" -> "U" [] c = "s" -> "S" [] OTHER -> c

ToUpperCase(str) == [i \in DOMAIN str |-> UpperChar(str[i])]

EndsWith(str, suffix) ==
    /\ Len(str) >= Len(suffix)
    /\ SubSeq(str, Len(str) - Len(suffix) + 1, Len(str)) = suffix

HasSlash(str) == \E i \in DOMAIN str : str[i] = "/"

\* the entries of knownQuotes that end a modelled pair, in list order
KnownQuotes == << <<"U", "S", "D", "T">>, <<"U", "S", "D">>, <<"Z", "U", "S", "D">> >>

\* _toWsSymbol: the upper-cased pair, with a slash put before the first known
\* quote that ends it (before the last three characters when none does)
ToWsSymbol(pair) ==
    LET upper == ToUpperCase(pair)
        matches == {k \in DOMAIN KnownQuotes : EndsWith(upper, KnownQuotes[k])}
        splitAt(n) == SubSeq(upper, 1, Len(upper) - n) \o <<"/">>
                      \o SubSeq(upper, Len(upper) - n + 1, Len(upper))
    IN  IF HasSlash(upper) THEN upper
        ELSE IF matches # {}
        THEN splitAt(Len(KnownQuotes[CHOOSE k \in matches :
                                        \A j \in matches : k <= j]))
        ELSE IF Len(upper) >= 6 THEN splitAt(3)
        ELSE upper

\* _canonicalPair: symbol.replace(/\//g, '').toUpperCase()
IsNotSlash(c) == c # "/"
CanonicalPair(symbol) == ToUpperCase(SelectSeq(symbol, IsNotSlash))

\* _priceKey and _bookKey
PriceKey(symbol, interval) == CanonicalPair(symbol) \o <<":", interval>>
BookKey(symbol) == CanonicalPair(symbol)

\* the pair as callers spell it
PairSpellings ==
    { <<"D", "O", "G", "E", "/", "U", "S", "D">>,
      <<"D", "O", "G", "E", "U", "S", "D">>,
      <<"d", "o", "g", "e", "u", "s", "d">> }

Channels == {"ohlc", "book"}

\* the registry key onPriceChange (interval 1) / onOrderBook derive from a pair
FeedFor(channel, pair) ==
    [channel |-> channel,
     key |-> IF channel = "ohlc" THEN PriceKey(ToWsSymbol(pair), "1")
             ELSE BookKey(ToWsSymbol(pair))]

Feeds == {FeedFor(ch, <<"D", "O", "G", "E", "/", "U", "S", "D">>) : ch \in Channels}

\* the constructor; socket is publicSocket (null, or its readyState), pending
\* is _pendingPublic and _pendingBook, awaitingOpen the subscribe calls
\* suspended until the socket opens, sent the subscribe messages written to
\* the current socket, unacked those of them not yet acknowledged, timers the
\* reconnect timeouts armed
MonitorInit ==
    [autoReconnect |-> TRUE,
     socket |-> "null",
     handlers |-> [f \in Feeds |-> 0],
     subscribed |-> [f \in Feeds |-> FALSE],
     pending |-> {},
     awaitingOpen |-> {},
     sent |-> {},
     unacked |-> {},
     timers |-> 0,
     socketsOpened |-> 0]

Registered(m) == {f \in Feeds : m.handlers[f] > 0}
PriceHandlers(m) == {f \in Registered(m) : f.channel = "ohlc"}
BookHandlers(m) == {f \in Registered(m) : f.channel = "book"}

\* _subscribePriceFeed / _subscribeBook for the feeds fs: _ensurePublicSocket
\* creates a socket when there is none, and _sendWhenOpen writes the subscribe
\* message at once on an open socket, after 'open' on a connecting one
SubscribeFeeds(m, fs) ==
    IF fs = {} THEN m
    ELSE IF m.socket = "open"
    THEN [m EXCEPT !.sent = @ \cup fs, !.unacked = @ \cup fs]
    ELSE [m EXCEPT !.socket = "connecting",
                   !.socketsOpened = IF m.socket = "null" THEN @ + 1 ELSE @,
                   !.awaitingOpen = @ \cup fs]

\* the test of _resubscribePriceFeeds / _resubscribeBookFeeds for one entry,
\* after force has cleared entry.subscribed
NeedsResubscribe(m, f) == f \notin m.pending

\* _resubscribePriceFeeds(true) followed by _resubscribeBookFeeds(true)
ResubscribeFeeds(m) ==
    LET fs == {f \in Registered(m) : NeedsResubscribe(m, f)}
        m1 == [m EXCEPT !.subscribed = [f \in Feeds |->
                            IF f \in fs THEN TRUE
                            ELSE IF f \in Registered(m) THEN FALSE
                            ELSE @[f]],
                        !.pending = @ \cup fs]
    IN  SubscribeFeeds(m1, fs)

\* a 'close' handler that empties the registries
OnSocketCloseDropsHandlers(m) ==
    [m EXCEPT !.socket = "null", !.awaitingOpen = {}, !.sent = {}, !.unacked = {},
              !.handlers = [f \in Feeds |-> 0],
              !.subscribed = [f \in Feeds |-> FALSE]]

\* the socket's 'close' handler
OnSocketClose(m) ==
    LET m1 == [m EXCEPT !.socket = "null", !.awaitingOpen = {},
                        !.sent = {}, !.unacked = {}]
    IN  IF m.autoReconnect /\ Registered(m) # {}
        THEN [m1 EXCEPT !.subscribed = [f \in Feeds |->
                             IF f \in Registered(m) THEN FALSE ELSE @[f]],
                        !.pending = @ \cup Registered(m),
                        !.timers = @ + 1]
        ELSE m1

MonLast(kind, feed) == [kind |-> kind, feed |-> feed]
NoFeed == [channel |-> "none", key |-> ""]

MonInit ==
    /\ mon = MonitorInit
    /\ monLast = MonLast("init", NoFeed)
    /\ monOps = 0

\* onPriceChange(pair, callback) / onOrderBook(pair, callback)
DoSubscribe(f) ==
    /\ monOps < MaxMonOps
    /\ mon.handlers[f] < MaxHandlers
    /\ monOps' = monOps + 1
    /\ LET m1 == [mon EXCEPT !.handlers[f] = @ + 1]
       IN  mon' = IF ~mon.subscribed[f]
                  THEN SubscribeFeeds([m1 EXCEPT !.subscribed[f] = TRUE,
                                                 !.pending = @ \cup {f}], {f})
                  ELSE m1
    /\ monLast' = MonLast("subscribe", f)

\* the unsubscribe() of a subscription handle: with the last handler the feed
\* leaves its registry and _unsubscribePriceFeed / _unsubscribeBook sends the
\* unsubscribe message and closes the socket when it finds nothing registered
\* (the price path looks at _priceHandlers only)
DoUnsubscribe(f) ==
    /\ monOps < MaxMonOps
    /\ mon.handlers[f] > 0
    /\ monOps' = monOps + 1
    /\ LET m1 == [mon EXCEPT !.handlers[f] = @ - 1]
           m2 == [m1 EXCEPT !.pending = @ \ {f}]
           idle == IF f.channel = "ohlc" THEN PriceHandlers(m2) = {}
                   ELSE PriceHandlers(m2) = {} /\ BookHandlers(m2) = {}
       IN  mon' = IF m1.handlers[f] > 0 THEN m1
                  ELSE IF mon.socket # "open" THEN m2
                  ELSE IF idle THEN OnSocketClose(m2)
                  ELSE m2
    /\ monLast' = MonLast("unsubscribe", f)

\* the socket's 'open' event: the suspended subscribe calls write their message
SocketOpens ==
    /\ mon.socket = "connecting"
    /\ mon' = [mon EXCEPT !.socket = "open",
                          !.sent = @ \cup mon.awaitingOpen,
                          !.unacked = @ \cup mon.awaitingOpen,
                          !.awaitingOpen = {}]
    /\ monLast' = MonLast("open", NoFeed)
    /\ UNCHANGED monOps

\* _handlePublicAck for a subscribe message: success or error
SubscribeAck(f, success) ==
    /\ f \in mon.unacked
    /\ mon' = [mon EXCEPT
                 !.unacked = @ \ {f},
                 !.subscribed[f] = IF f \in Registered(mon) THEN success ELSE @,
                 !.pending = IF success /\ f \in Registered(mon) THEN @ \ {f} ELSE @]
    /\ monLast' = MonLast("ack", f)
    /\ UNCHANGED monOps

\* the connection drops: the socket emits 'close'
SocketCloses ==
    /\ monOps < MaxMonOps
    /\ mon.socket # "null"
    /\ monOps' = monOps + 1
    /\ mon' = OnSocketClose(mon)
    /\ monLast' = MonLast("close", NoFeed)

\* the reconnect timeout set by the 'close' handler fires after its 1 s
ReconnectTimerFires ==
    /\ mon.timers > 0
    /\ mon' = ResubscribeFeeds([mon EXCEPT !.timers = @ - 1])
    /\ monLast' = MonLast("timer", NoFeed)
    /\ UNCHANGED monOps

\* the bot, its engines and the clock stay as they are while the monitor runs
MonFrame == UNCHANGED <<execVars, evVars, botVars, restVars, pairVars, sideVars>>

MonNext ==
    \/ \E ch \in Channels, pair \in PairSpellings :
          DoSubscribe(FeedFor(ch, pair)) /\ MonFrame
    \/ \E f \in Feeds : DoUnsubscribe(f) /\ MonFrame
    \/ SocketOpens /\ MonFrame
    \/ \E f \in Feeds, success \in BOOLEAN : SubscribeAck(f, success) /\ MonFrame
    \/ SocketCloses /\ MonFrame
    \/ ReconnectTimerFires /\ MonFrame

-----------------------------------------------------------------------------
(* Data: the REST client.  A call is one invocation of makeRequest for a   *)
(* private endpoint, or of getOpenOrders, which calls makeRequest in its   *)
(* own retry loop.  attempt is makeRequest's loop counter, outer the one   *)
(* of getOpenOrders, requests the HTTP requests issued for the call,       *)
(* failedAt the time the pending backoff timer was armed, error the        *)
(* message of the last rejected request, onlyNonce whether every answer so *)
(* far was 'EAPI:Invalid nonce'.                                           *)

RestCalls == 1..MaxRestCalls

IdleCall ==
    [kind |-> "none", pc |-> "idle", attempt |-> 0, outer |-> 0, requests |-> 0,
     failedAt |-> 0, error |-> "", onlyNonce |-> TRUE, result |-> "none"]

\* what the exchange answers to a request: a result, or an error array
Answers == {"ok", "EAPI:Invalid nonce", "EGeneral:Internal error"}

RestInit ==
    /\ calls = [i \in RestCalls |-> IdleCall]
    /\ nonceLog = [prev |-> None, last |-> None]
    /\ restTicks = 0

\* executeRequest for a private endpoint: nonce = Date.now().toString() is put
\* into params and the request is written
ExecuteRequest(c) ==
    /\ nonceLog' = [prev |-> nonceLog.last, last |-> Some(now)]
    /\ UNCHANGED now

\* getOpenOrders retries only these errors
IsRetryable(message) == message = "EAPI:Invalid nonce" \/ message = "timeout"

\* a makeRequest loop that never takes an attempt for the last one
IsLastAttemptNever(attempt) == FALSE

\* makeRequest: isLastAttempt
IsLastAttempt(attempt) == attempt = MaxRetries

\* data.makeRequest(path, params, false) or data.getOpenOrders() is called:
\* the first request goes out in the same synchronous stretch
DoCall(i, kind) ==
    /\ calls[i].pc = "idle"
    /\ \A j \in RestCalls : j < i => calls[j].pc # "idle"
    /\ calls' = [calls EXCEPT ![i] =
                    [IdleCall EXCEPT !.kind = kind, !.pc = "inflight", !.attempt = 1,
                                     !.outer = IF kind = "getOpenOrders" THEN 1 ELSE 0,
                                     !.requests = 1]]
    /\ ExecuteRequest(i)
    /\ UNCHANGED restTicks

\* the response of the request in flight arrives.  A result resolves the
\* call.  An error rejects executeRequest: makeRequest arms its backoff timer,
\* or on its last attempt throws; getOpenOrders then arms its own timer, or
\* throws 'Failed to fetch open orders: <message>'.
RequestAnswered(i, answer) ==
    /\ calls[i].pc = "inflight"
    /\ LET c == calls[i]
           f == [c EXCEPT !.error = answer, !.failedAt = now,
                          !.onlyNonce = @ /\ answer = "EAPI:Invalid nonce"]
       IN  calls' = [calls EXCEPT ![i] =
              IF answer = "ok"
              THEN [c EXCEPT !.pc = "done", !.result = "ok"]
              ELSE IF ~IsLastAttempt(c.attempt)
              THEN [f EXCEPT !.pc = "backoff"]
              ELSE IF c.kind = "getOpenOrders"
                      /\ c.outer # MaxAttempts /\ IsRetryable(answer)
              THEN [f EXCEPT !.pc = "outerBackoff"]
              ELSE [f EXCEPT !.pc = "done", !.result = "thrown"]]
    /\ UNCHANGED <<now, nonceLog, restTicks>>

\* the time the pending timer of a call is due: setTimeout(resolve, waitTime)
TimerDue(c) ==
    IF c.pc = "backoff" THEN c.failedAt + BackoffMs * c.attempt
    ELSE c.failedAt + BaseDelay * c.outer

\* a backoff timer fires (setTimeout: not before its delay has passed) and the
\* loop issues the next request
BackoffElapsed(i) ==
    /\ LET c == calls[i]
       IN  \/ /\ c.pc = "backoff"
              /\ now >= TimerDue(c)
              /\ calls' = [calls EXCEPT ![i] =
                              [c EXCEPT !.pc = "inflight", !.attempt = @ + 1,
                                        !.requests = @ + 1]]
           \/ /\ c.pc = "outerBackoff"
              /\ now >= TimerDue(c)
              /\ calls' = [calls EXCEPT ![i] =
                              [c EXCEPT !.pc = "inflight", !.attempt = 1,
                                        !.outer = @ + 1, !.requests = @ + 1]]
    /\ ExecuteRequest(i)
    /\ UNCHANGED restTicks

\* time passes, one backoff unit at a time; a timer that is due fires first,
\* and a request is answered within the unit it was sent in
RestTick ==
    /\ restTicks < MaxRestTicks
    /\ \A i \in RestCalls :
          /\ calls[i].pc # "inflight"
          /\ calls[i].pc \in {"backoff", "outerBackoff"} => now < TimerDue(calls[i])
    /\ restTicks' = restTicks + 1
    /\ now' = now + BackoffMs
    /\ UNCHANGED <<calls, nonceLog>>

\* everything but the clock and the client stays as it is
RestFrame ==
    UNCHANGED <<dryRun, eng, openOrders, addOrderCalls, last, opCount, netCash,
                evVars, botVars, monVars, pairVars, sideVars>>

RestNext ==
    \/ \E i \in RestCalls, kind \in {"makeRequest", "getOpenOrders"} :
          DoCall(i, kind) /\ RestFrame
    \/ \E i \in RestCalls, answer \in Answers : RequestAnswered(i, answer) /\ RestFrame
    \/ \E i \in RestCalls : BackoffElapsed(i) /\ RestFrame
    \/ RestTick /\ RestFrame

-----------------------------------------------------------------------------
(* ExecutionEngine.js: the balance cache with its awaits.  A read is one   *)
(* call of ensureBalanceSnapshot(force); it either returns from the cache  *)
(* or awaits bot.fetchBalances().                                          *)

Reads == 1..MaxReads

IdleRead == [pc |-> "idle", force |-> FALSE, startedAt |-> 0, requested |-> FALSE]

\* the quote balance a fetch reports (None: the fetch throws)
SnapshotBalances == {None, Some(RZero), Some(BalanceLow)}

BalInit == reads = [i \in Reads |-> IdleRead]

\* the reads whose fetchBalances request is outstanding
InFlight == {i \in Reads : reads[i].pc = "inflight"}

\* ensureBalanceSnapshot(force) up to the await in #loadBalances: a forced
\* read zeroes lastBalanceTs, a read served by the cache returns at once
StartRead(i, force) ==
    /\ reads[i].pc = "idle"
    /\ \A j \in Reads : j < i => reads[j].pc # "idle"
    /\ IF ~force /\ CacheFresh(eng, now)
       THEN /\ reads' = [reads EXCEPT ![i] = [pc |-> "done", force |-> force,
                                              startedAt |-> now, requested |-> FALSE]]
            /\ UNCHANGED eng
       ELSE /\ reads' = [reads EXCEPT ![i] = [pc |-> "inflight", force |-> force,
                                              startedAt |-> now, requested |-> TRUE]]
            /\ eng' = IF force THEN [eng EXCEPT !.lastBalanceTs = 0] ELSE eng
    /\ UNCHANGED now

\* bot.fetchBalances() settles: the rest of #loadBalances, with the time
\* taken before the await
FetchSettles(i, fetched) ==
    /\ reads[i].pc = "inflight"
    /\ eng' = LoadBalances(eng, TRUE, fetched, reads[i].startedAt).eng
    /\ reads' = [reads EXCEPT ![i].pc = "done"]
    /\ UNCHANGED now

\* time passes, half a cache lifetime at a time
BalTick ==
    /\ now < StartTime + MaxBalTicks * (CacheDurationMs \div 2)
    /\ now' = now + CacheDurationMs \div 2
    /\ UNCHANGED <<eng, reads>>

BalFrame ==
    UNCHANGED <<dryRun, openOrders, addOrderCalls, last, opCount, netCash,
                evVars, botVars, monVars, restVars, pairVars, dispVars,
                bookVars, decVars, logVars, stopVars,
                extraVars>>

BalNext ==
    \/ \E i \in Reads, force \in BOOLEAN : StartRead(i, force) /\ BalFrame
    \/ \E i \in Reads, b \in SnapshotBalances : FetchSettles(i, b) /\ BalFrame
    \/ BalTick /\ BalFrame

-----------------------------------------------------------------------------

(* KrakenMonitor: the dispatch of a channel message to the handlers of the  *)
(* entry it addresses. A handler is what it does when called.              *)

\* a handler returns, throws an Error, or throws a value without properties
\* (throw null, throw undefined)
HandlerKinds == {"returns", "throws Error", "throws nullish"}

DispatchChannels == {"ohlc", "book", "executions"}

NoDispatch ==
    [kind |-> "none", items |-> <<>>, invoked |-> <<>>, logged |-> 0,
     thrown |-> FALSE]

DispInit == handlers = <<>> /\ disp = NoDispatch

\* handlers.forEach((handler) => { try { handler(x) } catch (error) {
\*     this.logger.error('...', error.message) } }), from the i-th handler on:
\* the handlers called, the lines logged, and whether the loop was left by an
\* exception. Reading .message of null or undefined throws a TypeError inside
\* the catch block, which nothing around it catches.
RECURSIVE ForEachHandler(_, _, _)
ForEachHandler(hs, i, r) ==
    IF i > Len(hs) THEN r
    ELSE LET called == [r EXCEPT !.invoked = Append(@, i)]
         IN  CASE hs[i] = "returns" -> ForEachHandler(hs, i + 1, called)
               [] hs[i] = "throws Error" ->
                    ForEachHandler(hs, i + 1, [called EXCEPT !.logged = @ + 1])
               [] OTHER -> [called EXCEPT !.thrown = TRUE]

\* data.forEach((item) => ...) from the k-th item on: an item that addresses
\* no entry (ohlc) or is no trade (executions) is passed over
RECURSIVE ForEachItem(_, _, _, _)
ForEachItem(hs, items, k, d) ==
    IF k > Len(items) THEN d
    ELSE IF ~items[k]
         THEN ForEachItem(hs, items, k + 1,
                          [d EXCEPT !.invoked = Append(@, <<>>)])
         ELSE LET r == ForEachHandler(hs, 1,
                           [invoked |-> <<>>, logged |-> d.logged,
                            thrown |-> FALSE])
                  after == [d EXCEPT !.invoked = Append(@, r.invoked),
                                     !.logged = r.logged,
                                     !.thrown = r.thrown]
              IN  IF r.thrown THEN after
                  ELSE ForEachItem(hs, items, k + 1, after)

\* the messages: for each element of data, whether it is delivered
DispatchData == UNION {[1..n -> BOOLEAN] : n \in 1..MaxItems}

ProcessOhlc(hs, data) ==
    ForEachItem(hs, data, 1, [NoDispatch EXCEPT !.kind = "ohlc", !.items = data])

\* only data[0] is read
ProcessBook(hs, data) ==
    ForEachItem(hs, <<data[1]>>, 1,
                [NoDispatch EXCEPT !.kind = "book", !.items = <<data[1]>>])

ProcessExecutions(hs, data) ==
    ForEachItem(hs, data, 1,
                [NoDispatch EXCEPT !.kind = "executions", !.items = data])

\* onPriceChange / onOrderBook / onLimitOrder: the Map keeps insertion order
RegisterHandler(h) ==
    /\ Len(handlers) < MaxDispHandlers
    /\ handlers' = Append(handlers, h)
    /\ disp' = NoDispatch

OnOhlcMessage(data) ==
    disp' = ProcessOhlc(handlers, data) /\ UNCHANGED handlers

OnBookMessage(data) ==
    disp' = ProcessBook(handlers, data) /\ UNCHANGED handlers

OnExecutionsMessage(data) ==
    disp' = ProcessExecutions(handlers, data) /\ UNCHANGED handlers

DispFrame ==
    UNCHANGED <<execVars, evVars, botVars, monVars, restVars, pairVars, balVars,
                bookVars, decVars, logVars, stopVars,
                extraVars>>

DispNext ==
    \/ \E h \in HandlerKinds : RegisterHandler(h) /\ DispFrame
    \/ \E data \in DispatchData : OnOhlcMessage(data) /\ DispFrame
    \/ \E data \in DispatchData : OnBookMessage(data) /\ DispFrame
    \/ \E data \in DispatchData : OnExecutionsMessage(data) /\ DispFrame

-----------------------------------------------------------------------------
(* Level2Logger: the local order book of one tracked symbol *)

\* Number.prototype.toFixed(digits) of a rational x >= 0: the integer part
\* followed by the fraction's digits, rounded half up at the last one

\* the first k digits of the fraction r / d, by long division
RECURSIVE FractionDigits(_, _, _)
FractionDigits(r, d, k) ==
    IF k = 0 THEN <<>>
    ELSE <<(r * 10) \div d>> \o FractionDigits((r * 10) % d, d, k - 1)

\* the remainder left after k digits
RECURSIVE RemainderAfter(_, _, _)
RemainderAfter(r, d, k) ==
    IF k = 0 THEN r ELSE RemainderAfter((r * 10) % d, d, k - 1)

\* adds one unit in the last place of <<integer part, digit, ..., digit>>
RECURSIVE RoundUp(_, _)
RoundUp(digits, i) ==
    IF i = 1 THEN [digits EXCEPT ![1] = @ + 1]
    ELSE IF digits[i] < 9 THEN [digits EXCEPT ![i] = @ + 1]
    ELSE RoundUp([digits EXCEPT ![i] = 0], i - 1)

ToFixed(x, k) ==
    LET whole == x.n \div x.d
        r == x.n % x.d
        digits == <<whole>> \o FractionDigits(r, x.d, k)
        rest == RemainderAfter(r, x.d, k)
    IN  IF 2 * rest >= x.d THEN RoundUp(digits, k + 1) ELSE digits

KeyDigits == 12

\* Map.prototype.set / delete on a map held as a function of its keys
MapSet(map, key, value) ==
    [k \in DOMAIN map \cup {key} |-> IF k = key THEN value ELSE map[k]]

MapDelete(map, key) == [k \in DOMAIN map \ {key} |-> map[k]]

EmptyMap == [k \in {} |-> 0]

\* one level of an event: null, or an object whose price and qty are any
\* values
NullLevel == [isNull |-> TRUE, price |-> JsUndefined, qty |-> JsUndefined]
Level(price, qty) == [isNull |-> FALSE, price |-> price, qty |-> qty]

\* Number(x) where x is undefined, null or a number held as a rational; None
\* when the result is not finite
NumberOf(x) ==
    CASE x.kind = "undefined" -> None
      [] x.kind = "null" -> Some(RZero)
      [] OTHER -> Some(x.num)

\* the body of levels.forEach in _applyLevels
ApplyLevel(map, level) ==
    IF level.isNull THEN map
    ELSE LET price == NumberOf(level.price)
             qty == NumberOf(level.qty)
         IN  IF ~IsSome(price) THEN map
             ELSE LET key == ToFixed(Get(price), KeyDigits)
                  IN  IF ~IsSome(qty) \/ ~RPos(Get(qty))
                      THEN MapDelete(map, key)
                      ELSE MapSet(map, key,
                                  [price |-> Get(price), qty |-> Get(qty)])

\* _applyLevels: levels is None when it is not an array
RECURSIVE ApplyFrom(_, _, _)
ApplyFrom(map, levels, i) ==
    IF i > Len(levels) THEN map
    ELSE ApplyFrom(ApplyLevel(map, levels[i]), levels, i + 1)

ApplyLevels(map, levels) ==
    IF ~IsSome(levels) THEN map ELSE ApplyFrom(map, Get(levels), 1)

\* the same without the clearing on a snapshot
OnBookEventWithoutClear(state, event) ==
    [state EXCEPT !.bids = ApplyLevels(state.bids, event.bids),
                  !.asks = ApplyLevels(state.asks, event.asks)]

\* _onBookEvent up to the two _applyLevels calls
OnBookEvent(state, event) ==
    LET cleared == IF event.type = "snapshot"
                   THEN [state EXCEPT !.bids = EmptyMap, !.asks = EmptyMap]
                   ELSE state
    IN  [cleared EXCEPT !.bids = ApplyLevels(cleared.bids, event.bids),
                        !.asks = ApplyLevels(cleared.asks, event.asks)]

\* _recordSnapshot with less than intervalMs elapsed: the first recorded
\* timestamp is kept
RecordSnapshot(state, timestamp) ==
    IF state.lastFlush = None THEN [state EXCEPT !.lastFlush = Some(timestamp)]
    ELSE state

BookInit ==
    /\ book = [bids |-> EmptyMap, asks |-> EmptyMap, lastFlush |-> None]
    /\ bookLast = [type |-> "none", bids |-> None, asks |-> None]

\* the levels events carry: prices 0.125 and 2/3 (a key that is rounded),
\* quantities that remove (0, negative, not a number) and that set
LevelPrices == {Rat[1, 8], Rat[2, 3]}

EventLevels ==
    {NullLevel, Level(JsUndefined, JsNum(RInt(1))),
     Level(JsNum(Rat[2, 3]), JsUndefined),
     Level(JsNum(Rat[2, 3]), JsNum(RInt(-1))),
     Level(JsNum(Rat[2, 3]), JsNum(RInt(2)))}
    \cup {Level(JsNum(Rat[1, 8]), JsNum(RInt(q))) : q \in {0, 1, 2}}

SeqsUpTo(S, n) == UNION {[1..k -> S] : k \in 0..n}

BidBatches == {None} \cup {Some(b) : b \in SeqsUpTo(EventLevels, MaxLevels)}

AskBatches ==
    {Some(<<Level(JsNum(Rat[1, 8]), JsNum(RInt(1)))>>),
     Some(<<Level(JsNum(Rat[1, 8]), JsNull)>>)}

BookEvents ==
    [type : {"snapshot", "update"}, bids : BidBatches, asks : AskBatches]

\* monitor.onOrderBook's callback for the tracked symbol; the event carries no
\* timestampUnix, so Date.now() stamps the record
DoBookEvent(event) ==
    \E applied \in {OnBookEvent(book, event)} :
        /\ book' = IF DOMAIN applied.bids = {} /\ DOMAIN applied.asks = {}
                   THEN applied
                   ELSE RecordSnapshot(applied, now)
        /\ bookLast' = event

BookFrame ==
    UNCHANGED <<execVars, evVars, botVars, monVars, restVars, pairVars,
                balVars, dispVars, decVars, logVars, stopVars,
                extraVars>>

BookNext == \E event \in BookEvents : DoBookEvent(event) /\ BookFrame

-----------------------------------------------------------------------------
(* LLMDecider: decide(input), the mock or the model it calls out to, and   *)
(* the orchestrator's gate in front of it                                  *)

AllowedActions ==
    {"HOLD", "OPEN_LONG", "ADD", "TRIM", "CLOSE_PARTIAL", "CLOSE_ALL",
     "MOVE_STOP", "SET_TP", "PAUSE"}

\* toUpperCase, for the action strings the answers carry (the others have no
\* lower-case letter)
UpperCaseOf(s) ==
    CASE s = "trim" -> "TRIM" [] s = "buy" -> "BUY" [] OTHER -> s

\* String.prototype.trim, for the texts the answers carry
Trim(s) == CASE s = "   " -> "" [] s = " ok " -> "ok" [] OTHER -> s

\* the entry field of an answer: absent, null, an object with a type, or a
\* string
EntryValue(kind, type) == [kind |-> kind, type |-> type]
EntryUndefined == EntryValue("undefined", "")
EntryNull == EntryValue("null", "")

\* the followups field: absent, an array (held as the typeof of its
\* items), or a string
Followups(kind, items) == [kind |-> kind, items |-> items]
FollowupsUndefined == Followups("undefined", <<>>)

\* the comment field: absent or a string; a returned comment is a list of
\* the pieces it is put together from
CommentValue(kind, text) == [kind |-> kind, text |-> text]

DecisionObject(action, size_pct, entry, stop_atr, tp_atr, followups, comment) ==
    [action |-> action, size_pct |-> size_pct, entry |-> entry,
     stop_atr |-> stop_atr, tp_atr |-> tp_atr, followups |-> followups,
     comment |-> comment]

\* a decision object without properties
EmptyObject ==
    DecisionObject("", JsUndefined, EntryUndefined, JsUndefined, JsUndefined,
                   FollowupsUndefined, CommentValue("undefined", ""))

\* what a mock returns, or result?.response of the model: a falsy value, a
\* number, a string, or an object; action "" stands for an absent or empty
\* action (decision.action || '')
RawValue(kind, text, obj) == [kind |-> kind, text |-> text, obj |-> obj]
RawNull == RawValue("falsy", "", EmptyObject)
RawNumber == RawValue("number", "", EmptyObject)
RawString(text) == RawValue("string", text, EmptyObject)
RawObject(obj) == RawValue("object", "", obj)

AnswerObjects ==
    { DecisionObject("OPEN_LONG", JsNum(DefaultSizePct), EntryValue("object", "limit"),
                     JsNum(1), JsNum(2), Followups("array", <<"string">>),
                     CommentValue("string", " ok ")),
      DecisionObject("trim", JsNull, EntryNull, JsUndefined, JsNull,
                     Followups("string", <<>>), CommentValue("undefined", "")),
      DecisionObject("buy", JsNum(DefaultSizePct), EntryValue("object", "market"),
                     JsUndefined, JsUndefined, FollowupsUndefined,
                     CommentValue("string", "ok")),
      EmptyObject,
      DecisionObject("ADD", JsUndefined, EntryValue("object", "stop"),
                     JsUndefined, JsUndefined, Followups("array", <<"number">>),
                     CommentValue("string", "ok")),
      DecisionObject("CLOSE_ALL", JsUndefined, EntryValue("string", "market"),
                     JsUndefined, JsUndefined, Followups("array", <<>>),
                     CommentValue("string", "ok")) }

TrimJson == "{\"action\": \"trim\"}"

AnswerTexts == {"   ", "I would hold", "5", "null", TrimJson}

RawValues ==
    {RawNull, RawNumber} \cup {RawString(t) : t \in AnswerTexts}
    \cup {RawObject(o) : o \in AnswerObjects}

\* JSON.parse of the texts: the value, or thrown
JsonParse(text) ==
    CASE text = TrimJson ->
           [thrown |-> FALSE,
            value |-> RawObject([EmptyObject EXCEPT !.action = "trim"])]
      [] text = "5" -> [thrown |-> FALSE, value |-> RawNumber]
      [] text = "null" -> [thrown |-> FALSE, value |-> RawNull]
      [] OTHER -> [thrown |-> TRUE, value |-> RawNull]

\* #defaultDecision(comment): action and comment only
DefaultDecision(comment) ==
    DecisionObject("HOLD", JsUndefined, EntryUndefined, JsUndefined, JsUndefined,
                   FollowupsUndefined, comment)

\* #coerceDecision(raw)
CoerceDecision(raw) ==
    CASE raw.kind = "falsy" -> RawNull
      [] raw.kind = "object" -> raw
      [] raw.kind = "string" ->
           IF Trim(raw.text) = "" THEN RawNull
           ELSE LET parsed == JsonParse(Trim(raw.text))
                IN  IF parsed.thrown THEN RawNull ELSE parsed.value
      [] OTHER -> RawNull

\* Number.isFinite(Number(x)) ? Number(x) : null
FiniteOrNull(x) == IF IsSome(ToNumber(x)) THEN JsNum(Get(ToNumber(x))) ELSE JsNull

\* #normaliseDecision(decision, source)
NormaliseDecision(decision, source) ==
    IF decision.kind # "object"
    THEN DefaultDecision(<<"Invalid ", source>>)
    ELSE LET d == decision.obj
             action == UpperCaseOf(d.action)
         IN  IF action \notin AllowedActions
             THEN DefaultDecision(<<"Unsupported action ", d.action>>)
             ELSE DecisionObject(
                      action,
                      FiniteOrNull(d.size_pct),
                      IF d.entry.kind \in {"undefined", "null"} THEN EntryNull
                      ELSE d.entry,
                      FiniteOrNull(d.stop_atr),
                      FiniteOrNull(d.tp_atr),
                      IF d.followups.kind = "array" THEN d.followups
                      ELSE Followups("array", <<>>),
                      IF d.comment.kind = "string" THEN <<Trim(d.comment.text)>>
                      ELSE <<source>>)

\* what an awaited call settles with: a value, or a thrown Error, or a thrown
\* value without properties (Promise.reject(), throw undefined)
Resolved(raw) == [settled |-> "resolved", raw |-> raw]
Rejected(thrown) == [settled |-> thrown, raw |-> RawNull]

MockOutcomes ==
    {Resolved(raw) : raw \in RawValues}
    \cup {Rejected("Error"), Rejected("nullish")}

\* getPrompt or gpt.ask throws an Error, or ask resolves to {response}
ModelOutcomes == {Resolved(raw) : raw \in RawValues} \cup {Rejected("Error")}

\* the reasons of decide's input: not an array, or a list held as a set
ReasonInputs == {None, Some({}), Some({Reason("trend_flip")})}

IdleDecide ==
    [pc |-> "idle", reasons |-> {}, answer |-> Resolved(RawNull),
     result |-> DefaultDecision(<<>>), calledOut |-> FALSE,
     viaCycle |-> FALSE]

DecInit == dec = IdleDecide /\ calledWith = {}

\* catch (error) { this.logger.error(`... ${error.message}`); return
\* this.#defaultDecision(comment) }: reading .message of null or undefined
\* throws out of the catch block, and decide rejects
CatchAndDefault(d, thrown, comment) ==
    IF thrown = "nullish" THEN [d EXCEPT !.pc = "threw"]
    ELSE [d EXCEPT !.pc = "returned", !.result = DefaultDecision(comment)]

\* decide without its test of the reasons
DecideWithoutTest(input, hasMock, disabled, viaCycle) ==
    /\ dec' = [IdleDecide EXCEPT !.reasons = IF IsSome(input) THEN Get(input) ELSE {},
                                 !.pc = IF hasMock THEN "mock" ELSE "model",
                                 !.calledOut = TRUE, !.viaCycle = viaCycle]
    /\ calledWith' = calledWith \cup {IF IsSome(input) THEN Get(input) ELSE {}}

\* decide(input) up to its first await or its return
Decide(input, hasMock, disabled, viaCycle) ==
    LET reasons == IF IsSome(input) THEN Get(input) ELSE {}
        d == [IdleDecide EXCEPT !.reasons = reasons, !.viaCycle = viaCycle]
    IN  IF reasons = {}
        THEN /\ dec' = [d EXCEPT !.pc = "returned",
                                 !.result = DefaultDecision(<<"No triggers">>)]
             /\ UNCHANGED calledWith
        ELSE IF hasMock
        THEN /\ dec' = [d EXCEPT !.pc = "mock", !.calledOut = TRUE]
             /\ calledWith' = calledWith \cup {reasons}
        ELSE IF disabled
        THEN /\ dec' = [d EXCEPT !.pc = "returned",
                                 !.result = DefaultDecision(<<"LLM disabled">>)]
             /\ UNCHANGED calledWith
        ELSE /\ dec' = [d EXCEPT !.pc = "model", !.calledOut = TRUE]
             /\ calledWith' = calledWith \cup {reasons}

DecideSettled == dec.pc \in {"idle", "returned", "threw", "cycle returned"}

\* llmDecider.decide(input) called directly
DecideCall(input, hasMock, disabled) ==
    /\ DecideSettled
    /\ Decide(input, hasMock, disabled, FALSE)

\* _runEvaluationCycle from detect's result to the call of decide: with no
\* reason the cycle returns
CycleCallsDecide(engineReasons, override, hasMock, disabled) ==
    /\ DecideSettled
    /\ LET reasons == MergeReasons(engineReasons, override)
       IN  IF reasons = {}
           THEN /\ dec' = [IdleDecide EXCEPT !.pc = "cycle returned",
                                             !.viaCycle = TRUE]
                /\ UNCHANGED calledWith
           ELSE Decide(Some(reasons), hasMock, disabled, TRUE)

\* await this.mockDecision(payload) settles
MockSettles(outcome) ==
    /\ dec.pc = "mock"
    /\ LET d == [dec EXCEPT !.answer = outcome]
       IN  dec' = IF outcome.settled = "resolved"
                  THEN [d EXCEPT !.pc = "returned",
                                 !.result = NormaliseDecision(outcome.raw, "Mock decision")]
                  ELSE CatchAndDefault(d, outcome.settled, <<"Mock failed">>)
    /\ UNCHANGED calledWith

\* #buildPrompt and await this.gpt.ask(...) settle
ModelSettles(outcome) ==
    /\ dec.pc = "model"
    /\ LET d == [dec EXCEPT !.answer = outcome]
       IN  dec' = IF outcome.settled = "resolved"
                  THEN [d EXCEPT !.pc = "returned",
                                 !.result = NormaliseDecision(CoerceDecision(outcome.raw),
                                                              "LLM decision")]
                  ELSE CatchAndDefault(d, outcome.settled, <<"LLM error">>)
    /\ UNCHANGED calledWith

DecFrame ==
    UNCHANGED <<execVars, evVars, botVars, monVars, restVars, pairVars,
                balVars, dispVars, bookVars, logVars, stopVars,
                extraVars>>

EngineReasons == {{}, {Reason("trend_flip")}}
Overrides == {{}, {Reason("Periodic")}}

DecNext ==
    \/ \E input \in ReasonInputs, hasMock \in BOOLEAN, disabled \in BOOLEAN :
          DecideCall(input, hasMock, disabled) /\ DecFrame
    \/ \E er \in EngineReasons, ov \in Overrides, hasMock \in BOOLEAN,
          disabled \in BOOLEAN :
          CycleCallsDecide(er, ov, hasMock, disabled) /\ DecFrame
    \/ \E outcome \in MockOutcomes : MockSettles(outcome) /\ DecFrame
    \/ \E outcome \in ModelOutcomes : ModelSettles(outcome) /\ DecFrame

-----------------------------------------------------------------------------
(* DecisionLogger: logDecision calls chained on writeQueue.  The file is    *)
(* the list of its lines; call i writes row i.                              *)

LogCalls == 1..MaxLogCalls

NoFile == [exists |-> FALSE, lines |-> <<>>]
HeaderLine == 0

\* the file a previous run left: the header alone
HeaderOnly == [exists |-> TRUE, lines |-> <<HeaderLine>>]

\* failedAt: the file operation whose error the queue's catch logged
UncalledLog == [pc |-> "uncalled", isNull |-> FALSE, failedAt |-> "none"]

LogInit == logs = [i \in LogCalls |-> UncalledLog] /\ initialised = FALSE

\* a logDecision whose write does not wait for the queue
StartsAtOnce(i) == TRUE

\* this.writeQueue.then(() => this.#writeEntry(entry)): the write of call i
\* starts when the queue call i-1 left has settled
ChainReady(i) == \A j \in LogCalls : j < i => logs[j].pc = "settled"

\* logDecision(entry): the calls are numbered in call order; entry may be
\* null or undefined
LogDecision(i, isNull) ==
    /\ logs[i].pc = "uncalled"
    /\ \A j \in LogCalls : j < i => logs[j].pc # "uncalled"
    /\ logs' = [logs EXCEPT ![i] = [UncalledLog EXCEPT !.pc = "queued",
                                                       !.isNull = isNull]]
    /\ UNCHANGED <<logFile, initialised>>

\* #writeEntry(entry) up to its first file operation: nothing for no entry;
\* #ensureHeader returns at once when initialised, else calls mkdir
WriteEntry(i) ==
    /\ logs[i].pc = "queued"
    /\ ChainReady(i)
    /\ logs' = [logs EXCEPT ![i].pc =
                   IF logs[i].isNull THEN "settled"
                   ELSE IF initialised THEN "append" ELSE "mkdir"]
    /\ UNCHANGED <<logFile, initialised>>

\* a file operation rejects: #writeEntry rejects, the queue's catch logs it
WriteFails(i) ==
    logs' = [logs EXCEPT ![i].pc = "settled", ![i].failedAt = logs[i].pc]

\* fs.promises.mkdir settles
MkdirSettles(i, ok) ==
    /\ logs[i].pc = "mkdir"
    /\ IF ok THEN logs' = [logs EXCEPT ![i].pc = "access"] ELSE WriteFails(i)
    /\ UNCHANGED <<logFile, initialised>>

\* fs.promises.access settles: the file exists, or the header is to be
\* written
AccessSettles(i) ==
    /\ logs[i].pc = "access"
    /\ IF logFile.exists
       THEN initialised' = TRUE /\ logs' = [logs EXCEPT ![i].pc = "append"]
       ELSE UNCHANGED initialised /\ logs' = [logs EXCEPT ![i].pc = "header"]
    /\ UNCHANGED logFile

\* fs.promises.writeFile settles: the file is the header line
HeaderSettles(i, ok) ==
    /\ logs[i].pc = "header"
    /\ IF ok
       THEN /\ logFile' = [exists |-> TRUE, lines |-> <<HeaderLine>>]
            /\ initialised' = TRUE
            /\ logs' = [logs EXCEPT ![i].pc = "append"]
       ELSE WriteFails(i) /\ UNCHANGED <<logFile, initialised>>

\* fs.promises.appendFile settles: the row is the last line
AppendSettles(i, ok) ==
    /\ logs[i].pc = "append"
    /\ IF ok
       THEN /\ logFile' = [exists |-> TRUE, lines |-> Append(logFile.lines, i)]
            /\ logs' = [logs EXCEPT ![i].pc = "settled"]
       ELSE WriteFails(i) /\ UNCHANGED logFile
    /\ UNCHANGED initialised

LogFrame ==
    UNCHANGED <<execVars, evVars, botVars, monVars, restVars, pairVars,
                balVars, dispVars, bookVars, decVars, stopVars,
                extraVars>>

LogNext ==
    \/ \E i \in LogCalls, isNull \in BOOLEAN : LogDecision(i, isNull) /\ LogFrame
    \/ \E i \in LogCalls : WriteEntry(i) /\ LogFrame
    \/ \E i \in LogCalls, ok \in BOOLEAN : MkdirSettles(i, ok) /\ LogFrame
    \/ \E i \in LogCalls : AccessSettles(i) /\ LogFrame
    \/ \E i \in LogCalls, ok \in BOOLEAN : HeaderSettles(i, ok) /\ LogFrame
    \/ \E i \in LogCalls, ok \in BOOLEAN : AppendSettles(i, ok) /\ LogFrame

-----------------------------------------------------------------------------
(* Bot.js / llm-bot.js: start and stop of a bot.  A subscription entry is  *)
(* named by its type; the monitor keeps a handler per entry.               *)

SubscriptionTypes == {"orderbook", "price", "fills"}

BotStateInit ==
    botState = [running |-> FALSE,
                subscriptions |-> <<>>,
                orderBookSubscription |-> FALSE,
                evaluationTimer |-> FALSE,
                createdMonitor |-> FALSE,
                monitorHandlers |-> {},
                monitorClosed |-> FALSE,
                cycleInFlight |-> FALSE,
                cycleHasReasons |-> FALSE,
                stop |-> "none",
                held |-> {},
                unsubscribed |-> {},
                throws |-> {}]

\* the entries of a list, as a set
Entries(subs) == {subs[i] : i \in DOMAIN subs}

\* start() of a bot that is not running, to its end: onInit watches the order
\* book and sets the periodic timer, then running = true and the price and
\* fill subscriptions the options ask for
Start(ownMonitor, timer, priceFeed, orderFills) ==
    /\ ~botState.running /\ botState.stop = "none"
    /\ LET subs == <<"orderbook">>
                   \o (IF priceFeed THEN <<"price">> ELSE <<>>)
                   \o (IF orderFills THEN <<"fills">> ELSE <<>>)
       IN  botState' = [botState EXCEPT !.running = TRUE,
                                        !.subscriptions = subs,
                                        !.orderBookSubscription = TRUE,
                                        !.evaluationTimer = timer,
                                        !.createdMonitor = ownMonitor,
                                        !.monitorHandlers = Entries(subs)]

\* _clearSubscriptions without the try / catch around each unsubscribe: the
\* first failure ends the loop and leaves the set as it is
RECURSIVE ClearSubscriptionsUntilFailure(_, _, _)
ClearSubscriptionsUntilFailure(subs, throws, i) ==
    IF i > Len(subs) THEN [called |-> Entries(subs), subscriptions |-> <<>>]
    ELSE IF subs[i] \in throws
    THEN [called |-> {subs[k] : k \in 1..i}, subscriptions |-> subs]
    ELSE ClearSubscriptionsUntilFailure(subs, throws, i + 1)

\* _clearSubscriptions: every entry's unsubscribe is called, a failure is
\* logged (the monitor's functions throw Error objects), the set is cleared
RECURSIVE ClearSubscriptions(_, _, _)
ClearSubscriptions(subs, throws, i) ==
    IF i > Len(subs) THEN [called |-> Entries(subs), subscriptions |-> <<>>]
    ELSE ClearSubscriptions(subs, throws, i + 1)

\* stop() of a running bot up to monitor.close(): running = false,
\* _clearSubscriptions, the onStop hook (the order book watch's unsubscribe
\* again, eventEngine.reset(), clearInterval).  throws: the entries whose
\* unsubscribe fails; the monitor keeps the handler of such an entry
Stop(throws) ==
    /\ botState.running
    /\ LET cleared == ClearSubscriptions(botState.subscriptions, throws, 1)
       IN  botState' =
             [botState EXCEPT
                !.running = FALSE,
                !.held = Entries(botState.subscriptions),
                !.throws = throws,
                !.unsubscribed = cleared.called,
                !.subscriptions =
                    SelectSeq(cleared.subscriptions, LAMBDA t : t # "orderbook"),
                !.monitorHandlers = @ \ (cleared.called \ throws),
                !.orderBookSubscription = FALSE,
                !.evaluationTimer = FALSE,
                !.stop = IF botState.createdMonitor THEN "closing" ELSE "completed"]
    /\ ev' = Reset(ev)
    /\ emitLog' = <<>>
    /\ seen' = None
    /\ UNCHANGED <<evLast, evOps>>

\* await this.monitor.close() settles: the registries are cleared and the
\* sockets closed
MonitorCloseSettles ==
    /\ botState.stop = "closing"
    /\ botState' = [botState EXCEPT !.monitorHandlers = {},
                                    !.monitorClosed = TRUE,
                                    !.stop = "completed"]
    /\ UNCHANGED evVars

\* a price tick or the timer starts an evaluation cycle
CycleStarts ==
    /\ botState.running /\ ~botState.cycleInFlight
    /\ botState' = [botState EXCEPT !.cycleInFlight = TRUE]
    /\ UNCHANGED evVars

\* the cycle in flight reaches eventEngine.detect, whether or not the bot has
\* been stopped since; with reasons (detect's or the override's) it goes on
\* to llmDecider.decide, without it ends
CycleDetects(snapshot, override) ==
    /\ botState.cycleInFlight /\ ~botState.cycleHasReasons
    /\ evOps < MaxStopDetects
    /\ DetectCall(snapshot, FALSE)
    /\ botState' = IF evLast'.emitted # {} \/ override
                   THEN [botState EXCEPT !.cycleHasReasons = TRUE]
                   ELSE [botState EXCEPT !.cycleInFlight = FALSE]

\* the cycle in flight, with its reasons, gets the decision, logs it and
\* reaches execution.execute, whether or not the bot has been stopped since;
\* then the finally block
CycleExecutes(decision, fetchedBal, ok) ==
    /\ botState.cycleInFlight /\ botState.cycleHasReasons
    /\ DoExecute(decision, Some(TickerLow), None, fetchedBal, ok)
    /\ botState' = [botState EXCEPT !.cycleInFlight = FALSE,
                                    !.cycleHasReasons = FALSE]
    /\ UNCHANGED evVars

StopFrame ==
    UNCHANGED <<botVars, monVars, restVars, pairVars, balVars, dispVars,
                bookVars, decVars, logVars,
                extraVars>>

StopNext ==
    \/ \E ownMonitor \in BOOLEAN, timer \in BOOLEAN, priceFeed \in BOOLEAN,
          orderFills \in BOOLEAN :
          /\ Start(ownMonitor, timer, priceFeed, orderFills)
          /\ UNCHANGED <<execVars, evVars>> /\ StopFrame
    \/ \E throws \in SUBSET SubscriptionTypes :
          Stop(throws) /\ UNCHANGED execVars /\ StopFrame
    \/ MonitorCloseSettles /\ UNCHANGED execVars /\ StopFrame
    \/ CycleStarts /\ UNCHANGED execVars /\ StopFrame
    \/ \E sn \in TickSnapshots, override \in BOOLEAN :
          CycleDetects(sn, override) /\ StopFrame
    \/ \E d \in DeciderAnswers, b \in FetchChoices(FALSE), ok \in AnswerChoices(TRUE) :
          CycleExecutes(d, b, ok) /\ StopFrame

-----------------------------------------------------------------------------
(* Bot: the trading pair of the bot.  The constructor and setPair pass the  *)
(* pair they are given through normalisePair; strings are sequences of     *)
(* characters.                                                             *)

\* KNOWN_QUOTES: the entries that end a modelled pair, in list order
KNOWN_QUOTES ==
    << <<"U", "S", "D", "T">>, <<"E", "U", "R">>, <<"U", "S", "D">>,
       <<"Z", "U", "S", "D">>, <<"Z", "E", "U", "R">> >>

\* String.prototype.trim, for the blank the modelled inputs contain
RECURSIVE TrimStart(_)
TrimStart(str) ==
    IF str # <<>> /\ Head(str) = " " THEN TrimStart(Tail(str)) ELSE str

RECURSIVE TrimEnd(_)
TrimEnd(str) ==
    IF str # <<>> /\ str[Len(str)] = " "
    THEN TrimEnd(SubSeq(str, 1, Len(str) - 1)) ELSE str

TrimString(str) == TrimEnd(TrimStart(str))

\* str.replace(/[class]+/g, '/'): every maximal run of characters of the
\* class becomes one slash
RECURSIVE ReplaceRuns(_, _)
ReplaceRuns(str, class) ==
    IF str = <<>> THEN <<>>
    ELSE IF Head(str) \in class
    THEN IF Len(str) > 1 /\ str[2] \in class
         THEN ReplaceRuns(Tail(str), class)
         ELSE <<"/">> \o ReplaceRuns(Tail(str), class)
    ELSE <<Head(str)>> \o ReplaceRuns(Tail(str), class)

\* str.split('/'): the segments between the slashes
RECURSIVE SplitSlash(_)
SplitSlash(str) ==
    IF ~HasSlash(str) THEN <<str>>
    ELSE LET i == CHOOSE k \in DOMAIN str :
                    str[k] = "/" /\ \A j \in 1..(k - 1) : str[j] # "/"
         IN  <<SubSeq(str, 1, i - 1)>> \o SplitSlash(SubSeq(str, i + 1, Len(str)))

\* a JavaScript value: a string, or something else
JsString(chars) == [isString |-> TRUE, chars |-> chars]

NotAString == [isString |-> FALSE, chars |-> <<>>]

PairThrown == [thrown |-> TRUE]

\* normalisePair
normalisePair(input) ==
    IF ~input.isString \/ TrimString(input.chars) = <<>> THEN PairThrown
    ELSE
    LET upper == ToUpperCase(TrimString(input.chars))
        separated == ReplaceRuns(ReplaceRuns(upper, {":", " ", "-"}), {"/"})
        matches == {k \in DOMAIN KNOWN_QUOTES : EndsWith(separated, KNOWN_QUOTES[k])}
        match == KNOWN_QUOTES[CHOOSE k \in matches : \A j \in matches : k <= j]
        cut(n) == SubSeq(separated, 1, Len(separated) - n) \o <<"/">>
                  \o SubSeq(separated, Len(separated) - n + 1, Len(separated))
        sanitized ==
            IF HasSlash(separated) THEN separated
            ELSE IF matches # {} THEN cut(Len(match))
            ELSE IF Len(separated) >= 6 THEN cut(3)
            ELSE separated
        parts == SplitSlash(sanitized)
        base == parts[1]
        quote == IF Len(parts) >= 2 THEN parts[2] ELSE <<>>
    IN  IF base = <<>> \/ quote = <<>> THEN PairThrown
        ELSE [thrown |-> FALSE, wsPair |-> base \o <<"/">> \o quote,
              restPair |-> base \o quote, base |-> base, quote |-> quote]

\* DEFAULT_OPTIONS.pair
DefaultPair == JsString(<<"X", "B", "T", "/", "U", "S", "D">>)

\* the pairs callers pass
PairInputs ==
    { JsString(<<"D", "O", "G", "E", "U", "S", "D">>),
      JsString(<<"d", "o", "g", "e", "/", "u", "s", "d">>),
      JsString(<<"D", "O", "G", "E", "-", "U", "S", "D">>),
      JsString(<<" ", "d", "o", "g", "e", " ", "u", "s", "d", " ">>),
      JsString(<<"D", "O", "G", "E", ":", "-", "U", "S", "D">>),
      JsString(<<"D", "O", "G", "E", "/", "/", "U", "S", "D">>),
      JsString(<<"D", "O", "G", "E", "U", "S", "D", "T">>),
      JsString(<<"D", "O", "G", "E", "/", "Z", "U", "S", "D">>),
      JsString(<<"D", "O", "G", "E", "Z", "U", "S", "D">>),
      JsString(<<"X", "B", "T", "/", "Z", "E", "U", "R">>),
      JsString(<<"D", "O", "G", "E", "/", "U", "S", "D", "/", "X">>),
      JsString(<<"U", "S", "D">>),
      JsString(<<"d", "o", "g", "e">>),
      JsString(<<" ">>),
      NotAString }

\* the constructor with the default pair
SymbolInit ==
    /\ botPair = normalisePair(DefaultPair)
    /\ symLast = [input |-> DefaultPair, via |-> "constructor", thrown |-> FALSE,
                  before |-> normalisePair(DefaultPair)]
    /\ symOps = 0

\* setPair(pair), without force
SetPair(sym, pair) ==
    LET result == normalisePair(pair)
    IN  IF result.thrown \/ result.wsPair = sym.wsPair THEN sym ELSE result

DoSetPair(pair, via) ==
    /\ symOps < MaxSymOps
    /\ symOps' = symOps + 1
    /\ botPair' = SetPair(botPair, pair)
    /\ symLast' = [input |-> pair, via |-> via,
                   thrown |-> normalisePair(pair).thrown, before |-> botPair]

SymFrame ==
    UNCHANGED <<execVars, evVars, botVars, monVars, restVars, pairVars,
                balVars, dispVars, bookVars, decVars, logVars, stopVars,
                confVars, gridVars>>

SymNext ==
    \/ \E pair \in PairInputs : DoSetPair(pair, "caller") /\ SymFrame
    \/ DoSetPair(JsString(botPair.wsPair), "wsPair") /\ SymFrame
    \/ DoSetPair(JsString(botPair.restPair), "restPair") /\ SymFrame

-----------------------------------------------------------------------------
(* FeatureBuilder: the confluence score of a snapshot.  A timeframe is     *)
(* absent (None) or holds its features; a numeric feature is a finite      *)
(* number or None (undefined, null, NaN).                                  *)

FiniteAbove(x, limit) == IsSome(x) /\ RLt[limit, Get(x)]

FiniteBelow(x, limit) == IsSome(x) /\ RLt[Get(x), limit]

\* one entry of the score: the points and the tag pushed, when the test holds
Component(test, points, tag) ==
    IF test THEN <<[points |-> points, tag |-> tag]>> ELSE <<>>

RECURSIVE SumPoints(_)
SumPoints(entries) ==
    IF entries = <<>> THEN 0 ELSE Head(entries).points + SumPoints(Tail(entries))

\* #computeConfluence
ComputeConfluence(timeframes) ==
    LET tf5 == timeframes.m5
        tf15 == timeframes.m15
        tf1h == timeframes.h1
        from15 ==
            IF ~IsSome(tf15) THEN <<>>
            ELSE (IF Get(tf15).maStack = "bull" THEN Component(TRUE, 2, "TrendBull(15m)")
                  ELSE Component(Get(tf15).maStack = "bear", -2, "TrendBear(15m)"))
              \o Component(FiniteAbove(Get(tf15).macdHistogram, RZero), 1, "MACD>0(15m)")
              \o (IF FiniteAbove(Get(tf15).rsi, RInt(55))
                  THEN Component(TRUE, 1, "RSI>55(15m)")
                  ELSE Component(FiniteBelow(Get(tf15).rsi, RInt(45)), -1, "RSI<45(15m)"))
        from5 ==
            IF ~IsSome(tf5) THEN <<>>
            ELSE (IF FiniteAbove(Get(tf5).priceZ20, Rat[6, 5])
                  THEN Component(TRUE, 1, "PriceZ>1(5m)")
                  ELSE Component(FiniteBelow(Get(tf5).priceZ20, Rat[-6, 5]), -1,
                                 "PriceZ<-1(5m)"))
              \o Component(FiniteAbove(Get(tf5).volumeZScore, Rat[3, 2]), 1,
                           "VolumeSpike(5m)")
        from1h ==
            IF ~IsSome(tf1h) THEN <<>>
            ELSE IF Get(tf1h).maStack = "bull" THEN Component(TRUE, 1, "TrendBull(1h)")
            ELSE Component(Get(tf1h).maStack = "bear", -1, "TrendBear(1h)")
        entries == from15 \o from5 \o from1h
    IN  [score |-> SumPoints(entries),
         components |-> [i \in DOMAIN entries |-> entries[i].tag]]

\* the timeframes of the snapshots built
MaStacks == {"bull", "bear", "neutral"}

Tf15s ==
    {None} \cup
    {Some([maStack |-> s, macdHistogram |-> h, rsi |-> r]) :
        s \in MaStacks,
        h \in {None, Some(RInt(-1)), Some(RZero), Some(RInt(1))},
        r \in {None, Some(RInt(40)), Some(RInt(45)), Some(RInt(55)), Some(RInt(60))}}

Tf5s ==
    {None} \cup
    {Some([priceZ20 |-> z, volumeZScore |-> v]) :
        z \in {None, Some(RInt(-2)), Some(Rat[-6, 5]), Some(RZero), Some(Rat[6, 5]),
               Some(RInt(2))},
        v \in {None, Some(Rat[3, 2]), Some(RInt(2))}}

Tf1hs == {None} \cup {Some([maStack |-> s]) : s \in MaStacks}

Timeframes == [m5 : Tf5s, m15 : Tf15s, h1 : Tf1hs]

\* no snapshot built yet
ConfInit == featureSnap = [built |-> FALSE]

\* the snapshot is built from the timeframes: its confluence field
BuildConfluence(timeframes) ==
    /\ ~featureSnap.built
    /\ featureSnap' = [built |-> TRUE, timeframes |-> timeframes,
                       confluence |-> ComputeConfluence(timeframes)]

ConfFrame ==
    UNCHANGED <<execVars, evVars, botVars, monVars, restVars, pairVars,
                balVars, dispVars, bookVars, decVars, logVars, stopVars,
                symVars, gridVars>>

ConfNext == \E timeframes \in Timeframes : BuildConfluence(timeframes) /\ ConfFrame

-----------------------------------------------------------------------------
(* ExecutionEngine: a run of fill notifications, long enough for a losing, *)
(* a winning and another losing sell after the buy.                        *)

\* a price above the average price of the position bought
TickerPeak == RAdd[TickerHigh, RInt(1)]

\* the fills notified: two buys, a sell below and a sell above their prices
StreakFills ==
    { [side |-> "buy",  quantity |-> FillQtyLarge, price |-> TickerHigh],
      [side |-> "buy",  quantity |-> FillQtySmall, price |-> TickerLow],
      [side |-> "sell", quantity |-> FillQtySmall, price |-> TickerLow],
      [side |-> "sell", quantity |-> FillQtySmall, price |-> TickerPeak] }

\* LLMBot.onOrderFill -> handleFill
OnOrderFill(fill) ==
    /\ opCount < MaxFills
    /\ opCount' = opCount + 1
    /\ eng' = HandleFill(eng, Some(fill), now)
    /\ netCash' = NetCashAfter(netCash, eng, fill.side, fill.quantity, fill.price)
    /\ last' = Last("fill", "none", fill.side, IsPaused(eng, now), FALSE,
                    "none", FALSE, None)
    /\ UNCHANGED <<now, dryRun, openOrders, addOrderCalls>>

FillNext == \E fill \in StreakFills : OnOrderFill(fill) /\ ExecFrame

-----------------------------------------------------------------------------
(* The limit-grid Bot: onRebalance, called by the monitor for every limit   *)
(* order fill.  The repository holds two versions of the class: one sets    *)
(* busy = false in a finally block, the other as its last statement.        *)

GridVersions == {"finally", "last statement"}

GridInit == gridBot = [version |-> "none", busy |-> FALSE, calls |-> <<>>]

\* new Bot(pair, risk, options)
NewGridBot(version) ==
    /\ gridBot.version = "none"
    /\ gridBot' = [version |-> version, busy |-> FALSE, calls |-> <<>>]

\* onRebalance up to its first await: skipped while busy, otherwise busy is
\* set and countOpenLimitOrders is awaited
OnRebalance(event) ==
    /\ gridBot.version # "none"
    /\ Len(gridBot.calls) < MaxRebalances
    /\ gridBot' =
         IF gridBot.busy
         THEN [gridBot EXCEPT !.calls = Append(@, [side |-> event.side, pc |-> "skipped"])]
         ELSE [gridBot EXCEPT !.busy = TRUE,
                              !.calls = Append(@, [side |-> event.side, pc |-> "counting"])]

\* leaving onRebalance: busy as the version leaves it
Leave(g, i, thrown) ==
    [g EXCEPT !.calls[i].pc = IF thrown THEN "thrown" ELSE "returned",
              !.busy = IF thrown /\ g.version = "last statement" THEN @ ELSE FALSE]

\* countOpenLimitOrders settles: a side is empty, both have orders, or it
\* rejects
CountSettles(i, outcome) ==
    /\ i \in DOMAIN gridBot.calls
    /\ gridBot.calls[i].pc = "counting"
    /\ gridBot' =
         IF outcome = "rejected" THEN Leave(gridBot, i, TRUE)
         ELSE [gridBot EXCEPT !.calls[i].pc =
                  IF outcome = "side empty" THEN "recreating" ELSE "repopulating"]

\* the awaits of the chosen branch (resetLimitOrders, calculateLimitRanges,
\* createLimitOrders; or getOpenOrders, getprice, calculateLimitRanges,
\* cancelLimitOrdersByPrice, createLimitOrders) settle, or one rejects
BranchSettles(i, rejected) ==
    /\ i \in DOMAIN gridBot.calls
    /\ gridBot.calls[i].pc \in {"recreating", "repopulating"}
    /\ gridBot' = Leave(gridBot, i, rejected)

GridFrame ==
    UNCHANGED <<execVars, evVars, botVars, monVars, restVars, pairVars,
                balVars, dispVars, bookVars, decVars, logVars, stopVars,
                symVars, confVars>>

GridNext ==
    \/ \E version \in GridVersions : NewGridBot(version) /\ GridFrame
    \/ \E side \in {"buy", "sell"} : OnRebalance([side |-> side]) /\ GridFrame
    \/ \E i \in 1..MaxRebalances, outcome \in {"side empty", "both sides", "rejected"} :
          CountSettles(i, outcome) /\ GridFrame
    \/ \E i \in 1..MaxRebalances, rejected \in BOOLEAN :
          BranchSettles(i, rejected) /\ GridFrame

-----------------------------------------------------------------------------
(* Specifications: each exercises one component from the common initial    *)
(* state and leaves the others as they are                                 *)

\* the components after construction, the metadata of the pair loaded
\* the components added last
ExtraInit == SymbolInit /\ ConfInit /\ GridInit

ComponentsInit ==
    ExecInit /\ EvInit /\ BotInit /\ MonInit /\ RestInit /\ BalInit /\ DispInit
    /\ BookInit /\ DecInit /\ LogInit /\ BotStateInit /\ ExtraInit

Init == ComponentsInit /\ pairInfo = PairInfo /\ logFile = NoFile

\* the same, for either kind of pair
PairsInit ==
    ComponentsInit /\ pairInfo \in {PairInfo, PairInfoWhole} /\ logFile = NoFile

\* the same, with or without the log file of a previous run
LogFilesInit ==
    ComponentsInit /\ pairInfo = PairInfo /\ logFile \in {NoFile, HeaderOnly}

\* the execution engine and the bot's order path
Spec == Init /\ [][ExecNext]_vars

\* the execution engine under a run of fill notifications
SpecFills == Init /\ [][FillNext]_vars

\* the event engine, called directly
SpecPairs == PairsInit /\ [][ExecNext]_vars
SpecEvents == Init /\ [][EvNext]_vars
SpecTicks == Init /\ [][TickNext]_vars

\* the bot's evaluation cycle with its callers: price ticks, the periodic
\* timer and manual triggers
SpecBot == Init /\ [][BotNext]_vars

\* the continuation of invocation c after the promise it awaits has settled
CycleStep(c) ==
    \/ \E ok \in BOOLEAN, trend \in Trends :
          CycleBuilt(c, ok, trend, Some(TickerLow)) /\ BotFrame
    \/ \E b \in FetchChoices(FALSE) : CycleDetect(c, b) /\ BotFrame
    \/ \E ok \in BOOLEAN, d \in DeciderAnswers : CycleDecided(c, ok, d) /\ BotFrame
    \/ \E b \in FetchChoices(FALSE), ok \in AnswerChoices(TRUE) :
          CycleExecute(c, None, b, ok) /\ BotFrame

\* the same, where every promise a cycle awaits settles (resolves or rejects)
\* and the event loop then runs the cycle's continuation
SpecBotLive == SpecBot /\ \A c \in Slots : WF_vars(CycleStep(c))

\* the monitor's public socket: subscriptions, acknowledgements, connection
\* drops and the reconnect timer
SpecMonitor == Init /\ [][MonNext]_vars

\* the REST client: concurrent calls, the exchange's answers, the timers
SpecRest == Init /\ [][RestNext]_vars

\* the balance cache under concurrent reads
SpecBalances == Init /\ [][BalNext]_vars

\* the dispatch of channel messages to registered handlers
SpecDispatch == Init /\ [][DispNext]_vars

\* the local order book under book events
SpecBook == Init /\ [][BookNext]_vars

\* the decider, called directly and through the cycle's gate
SpecDecider == Init /\ [][DecNext]_vars

\* the decision log under overlapping logDecision calls
SpecLog == LogFilesInit /\ [][LogNext]_vars

\* a bot started and stopped, with an evaluation cycle in flight
SpecStop == Init /\ [][StopNext]_vars

\* the bot's trading pair, set by callers and from its own two spellings
SpecSymbols == Init /\ [][SymNext]_vars

\* the confluence score of the snapshots built
SpecConfluence == Init /\ [][ConfNext]_vars

\* the limit-grid bot's rebalances, in either version of the class
SpecGrid == Init /\ [][GridNext]_vars

-----------------------------------------------------------------------------
(* Properties of the execution model *)

\* a step that is one call of ExecutionEngine.execute
IsExecuteStep == opCount' = opCount + 1 /\ now' = now /\ last'.kind = "execute"

\* a step that applies a sell fill to the ledger (handleFill or an assumed fill)
IsSellFillStep ==
    /\ opCount' = opCount + 1 /\ now' = now
    /\ last'.kind \in {"execute", "fill"} /\ last'.side = "sell"

\* a step that hands handleFill the exchange's notification for an order whose
\* fill the engine had already assumed at submission
IsNotifiedAssumedFillStep ==
    opCount' = opCount + 1 /\ now' = now /\ last'.kind = "fill" /\ last'.assumed

\* C2: with dryRun set, no order call (direct or through execute) issues a REST
\* AddOrder request, no order reaches the exchange, and every order call that
\* returns answers {dryRun: true, payload}
C2_DryRunNeverSubmits ==
    dryRun =>
        /\ addOrderCalls = 0
        /\ openOrders = {}
        /\ IsSome(last.response) =>
              /\ Get(last.response).dryRun = TRUE
              /\ Get(last.response).payload # NoPayload
        /\ (last.kind = "direct" /\ ~last.thrown) => IsSome(last.response)
        /\ (last.kind = "execute" /\ last.status = "dry-run") => IsSome(last.response)

C2_Witness ==
    /\ dryRun
    /\ last.kind = "execute" /\ last.action = "OPEN_LONG"
    /\ IsSome(last.response) /\ Get(last.response).dryRun
    /\ Get(last.response).payload.ordertype = "limit"

\* C3: the position has size 0 exactly when its side is FLAT, exactly when its
\* average price is 0
C3_FlatIffZero ==
    /\ (eng.position.size = RZero) <=> (eng.position.side = "FLAT")
    /\ (eng.position.side = "FLAT") <=> (eng.position.averagePrice = RZero)

\* a position emptied by a sell after having been opened
C3_Witness ==
    /\ last.side = "sell" /\ last.kind \in {"execute", "fill"}
    /\ eng.position.size = RZero
    /\ eng.realizedPnlQuote # RZero

\* C6: an execute called while the engine is paused submits no order and leaves
\* the position unchanged unless the action is PAUSE; it answers 'paused' for
\* OPEN_LONG, ADD, TRIM, CLOSE_PARTIAL, CLOSE_ALL, MOVE_STOP and SET_TP; and a
\* PAUSE is applied: the deadline becomes now + max(minutes, 1) minutes
C6_PausedRejects ==
    [][ (IsExecuteStep /\ IsPaused(eng, now)) =>
          /\ last'.wasPaused
          /\ (last'.action # "PAUSE") =>
                /\ eng' = eng
                /\ addOrderCalls' = addOrderCalls
                /\ openOrders' = openOrders
                /\ last'.response = None
          /\ (last'.action \in {"OPEN_LONG", "ADD", "TRIM", "CLOSE_PARTIAL",
                                "CLOSE_ALL", "MOVE_STOP", "SET_TP"}) =>
                last'.status = "paused"
          /\ (last'.action = "PAUSE") =>
                /\ last'.status = "paused"
                /\ eng'.position = eng.position
                /\ eng'.pauseUntil \in
                      {now + m * MsPerMinute : m \in {1, PauseMinutes, LongPauseMinutes}}
      ]_vars

C6_Witness ==
    /\ last.kind = "execute" /\ last.wasPaused
    /\ last.action = "OPEN_LONG" /\ last.status = "paused"
    /\ eng.position.size # RZero

C9_FillAppliedOnce ==
    [][ IsNotifiedAssumedFillStep =>
          /\ eng'.position.size = eng.position.size
          /\ eng'.position.averagePrice = eng.position.averagePrice
          /\ eng'.realizedPnlQuote = eng.realizedPnlQuote
      ]_vars

\* C10 as stated: realised PnL + size * averagePrice = cash paid for buys
\* - cash received for sells
C10_AsStated ==
    RAdd[eng.realizedPnlQuote, RMul[eng.position.size, eng.position.averagePrice]]
        = netCash

\* C10: size * averagePrice - realised PnL = cash paid for the applied buys
\* - cash received for the applied sells, a sell counting for the part of its
\* quantity that the position holds
C10_CostBasisIdentity ==
    RSub[RMul[eng.position.size, eng.position.averagePrice], eng.realizedPnlQuote]
        = netCash

\* a losing sell of part of the position has been applied
C10_Witness ==
    /\ last.side = "sell" /\ last.kind = "fill"
    /\ RLt[eng.realizedPnlQuote, RZero]
    /\ RPos(eng.position.size)
    /\ netCash # RZero


-----------------------------------------------------------------------------
(* Properties of the event-engine model *)

\* C4: between two resets, any two detect calls that return a non-empty
\* reason list have timestamps at least debounceMs apart, the later call
\* having the later timestamp
C4_OneEmissionPerWindow ==
    \A i, j \in 1..Len(emitLog) :
        i < j => emitLog[j] - emitLog[i] >= DebounceMs

\* two emissions since the last reset, the second by the last detect call
C4_Witness ==
    /\ Len(emitLog) >= 2
    /\ evLast.kind = "detect" /\ evLast.emitted # {}
    /\ evLast.timestamp = emitLog[Len(emitLog)]

-----------------------------------------------------------------------------
(* Properties of the evaluation cycle *)

\* a step that is a call of _runEvaluationCycle: a price tick that
\* shouldEvaluate lets through, the periodic timer or a manual trigger
IsCycleCall ==
    /\ botOps' = botOps + 1
    /\ \/ botLast'.kind = "trigger"
       \/ botLast'.kind = "price" /\ botLast'.evaluate

\* C1: at most one invocation is ever between processing = true and
\* processing = false, and a call of _runEvaluationCycle that finds processing
\* set returns at once: it starts no invocation, builds no snapshot, starts no
\* decider call and leaves the execution engine as it is
C1_CyclesSerialised ==
    [][ /\ Cardinality(ActiveCycles') <= 1
        /\ (ActiveCycles' # {}) => processing'
        /\ (IsCycleCall /\ processing) =>
              /\ botLast'.skipped
              /\ cycles' = cycles
              /\ processing'
              /\ deciderCalls' = deciderCalls
              /\ UNCHANGED execVars
      ]_vars

\* a trigger has just been turned away while a decider call is in flight
C1_Witness ==
    /\ botLast.skipped
    /\ processing
    /\ \E c \in Slots : cycles[c].pc = "decide"

\* C8: a price tick that shouldEvaluate lets through with the price-change
\* threshold triggered while a cycle is in flight leaves its reason,
\* MomentumSpike(PriceFeed), in the event engine's pending set
C8_TriggerAccumulates ==
    [][ (IsCycleCall /\ processing /\ botLast'.kind = "price"
         /\ botLast'.thresholdTriggered) =>
            Reason("MomentumSpike(PriceFeed)") \in ev'.pendingReasonSet
      ]_vars

-----------------------------------------------------------------------------
(* Properties of the monitor *)

\* C5: when the reconnect timeout fires with subscriptions registered, the
\* socket is reopened and a subscribe message is on its way (written, or
\* waiting for the socket to open) for every registered OHLC and book
\* subscription
C5_ReconnectResubscribes ==
    [][ (monLast'.kind = "timer" /\ mon.timers > 0 /\ mon'.timers = mon.timers - 1
         /\ Registered(mon) # {}) =>
            /\ mon'.socket # "null"
            /\ \A f \in Registered(mon) : f \in mon'.awaitingOpen \cup mon'.sent
      ]_vars

-----------------------------------------------------------------------------
-----------------------------------------------------------------------------
(* Properties of the REST client *)

\* a step in which call i issues a request
IsRequestStep(i) == calls'[i].requests = calls[i].requests + 1

(* C12: makeRequest makes at most 3 request attempts per call: a result    *)
(* ends the call with that result and no further request, a failed attempt *)
(* is followed by the next one no sooner than 250 ms x attempt number      *)
(* later, and the call throws only after its third attempt failed, with    *)
(* that attempt's error.                                                   *)
C12_ThreeAttemptsWithBackoff ==
    [][\A i \in RestCalls :
         calls'[i].kind = "makeRequest" =>
           /\ calls'[i].attempt <= MaxRetries
           /\ calls'[i].requests = calls'[i].attempt
           /\ calls[i].pc = "done" => calls'[i] = calls[i]
           /\ (calls[i].pc = "inflight" /\ calls'[i].result = "ok") =>
                  calls'[i].pc = "done"
           /\ calls'[i].result = "thrown" =>
                  /\ calls'[i].attempt = MaxRetries
                  /\ calls'[i].error # "ok"
                  /\ calls[i].pc = "done" \/ calls[i].pc = "inflight"
           /\ (calls[i].pc = "backoff" /\ IsRequestStep(i)) =>
                  /\ now >= calls[i].failedAt + 250 * calls[i].attempt
                  /\ calls'[i].attempt = calls[i].attempt + 1
      ]_vars

\* a makeRequest call has thrown after three requests, the third sent at least
\* 250 + 500 ms after the first
C12_Witness ==
    \E i \in RestCalls :
       /\ calls[i].kind = "makeRequest"
       /\ calls[i].result = "thrown"
       /\ calls[i].requests = 3
       /\ now >= StartTime + 750

(* C13: a getOpenOrders call whose every request is answered               *)
(* 'EAPI:Invalid nonce' issues at most 5 requests to the endpoint in all.  *)
C13_AtMostFiveRequests ==
    \A i \in RestCalls :
       (calls[i].kind = "getOpenOrders" /\ calls[i].onlyNonce) =>
          calls[i].requests <= 5

(* C14: the nonces injected into successive private requests of one client *)
(* are strictly increasing, whatever the timing of the requests.           *)
C14_NoncesStrictlyIncrease ==
    (IsSome(nonceLog.prev) /\ IsSome(nonceLog.last)) =>
       Get(nonceLog.prev) < Get(nonceLog.last)

-----------------------------------------------------------------------------
(* Properties of the event engine's reasons *)

\* a step in which detect is called with a snapshot (the call stamps its
\* result with the snapshot's time or the clock's, and the clock stands still)
IsDetectStep ==
    /\ evOps' = evOps + 1
    /\ now' = now
    /\ evLast'.kind = "detect"
    /\ evLast'.timestamp # 0

\* the liquidity flags and the reason each one raises
LiquidityTags ==
    [sweepLow |-> "LiquiditySweep(Low)", sweepHigh |-> "LiquiditySweep(High)",
     breakAndHoldHigh |-> "BreakAndHold(High)",
     breakAndHoldLow |-> "BreakAndHold(Low)"]

(* C15: a detect call adds LiquiditySweep(Low) as a reason exactly when    *)
(* its snapshot has sweepLow set and the snapshot of the previous detect   *)
(* call had it clear, or there was no previous one; a flag that stays set  *)
(* raises nothing and one that was cleared in between raises again.  The   *)
(* same for sweepHigh, breakAndHoldHigh and breakAndHoldLow.               *)
C15_LiquidityRisingEdges ==
    [][IsDetectStep =>
         \A f \in DOMAIN LiquidityTags :
            Reason(LiquidityTags[f]) \in evLast'.reasons
               <=> /\ Get(seen').liquidity[f]
                   /\ ~(IsSome(seen) /\ Get(seen).liquidity[f])
      ]_vars

\* a detect call whose snapshot has sweepLow set and which did not raise
\* LiquiditySweep(Low): the flag was set in the snapshot before it too
C15_Witness ==
    /\ evLast.kind = "detect"
    /\ IsSome(seen)
    /\ Get(seen).liquidity.sweepLow
    /\ Reason("LiquiditySweep(Low)") \notin evLast.reasons

\* the snapshot kept by the history has a daily PnL at or below the guard
Breached(kept) ==
    /\ IsSome(kept)
    /\ IsSome(Get(kept).dailyPnlPct)
    /\ RLe[Get(Get(kept).dailyPnlPct), RInt(0 - DrawdownGuard)]

(* C16: while risk.dailyPnlPct stays at or below -drawdownGuard across     *)
(* consecutive detect calls, only the first of them raises the             *)
(* DrawdownGuardrail reason: a detect call whose snapshot is in breach,    *)
(* as the snapshot of the detect call before it was, raises none.          *)
C16_DrawdownRaisedOnce ==
    [][(IsDetectStep /\ Breached(seen) /\ Breached(seen')) =>
          \A r \in evLast'.reasons : r.tag # "DrawdownGuardrail"
      ]_vars

\* a step in which shouldEvaluate is called
IsTickStep ==
    /\ evOps' = evOps + 1
    /\ now' = now
    /\ evLast'.kind = "shouldEvaluate"

\* the bucket index of a timestamp for bars of the given minutes
BucketIndex(timestamp, minutes) == timestamp \div (minutes * 60000)

(* C17: shouldEvaluate returns true when and only when (a) the 5m, 15m or  *)
(* 60m bucket index of the tick's timestamp differs from the remembered    *)
(* one (none remembered counts as different), or (b) meta.thresholdTriggered*)
(* is set, or (c) reasons are pending and at least debounceMs has passed   *)
(* since the last emission; in every case it records the new indices.      *)
C17_ShouldEvaluateIff ==
    [][IsTickStep =>
         LET ts == evLast'.timestamp
             a  == \/ ev.lastBuckets.m5 # Some(BucketIndex(ts, 5))
                   \/ ev.lastBuckets.m15 # Some(BucketIndex(ts, 15))
                   \/ ev.lastBuckets.m60 # Some(BucketIndex(ts, 60))
             b  == evLast'.thresholdTriggered
             c  == ev.pendingReasonSet # {} /\ ts - ev.lastEmitTs >= 60000
         IN  /\ evLast'.evaluate <=> (a \/ b \/ c)
             /\ ev'.lastBuckets = [m5 |-> Some(BucketIndex(ts, 5)),
                                   m15 |-> Some(BucketIndex(ts, 15)),
                                   m60 |-> Some(BucketIndex(ts, 60))]
      ]_vars

\* shouldEvaluate returned true for the debounce release alone: the tick is
\* in the remembered buckets and carries no threshold trigger
C17_Witness ==
    /\ evLast.kind = "shouldEvaluate"
    /\ evLast.evaluate
    /\ evLast.triggers = {"debounce release"}

-----------------------------------------------------------------------------
(* Properties of order sizing *)

\* the size_pct #openLong works with: the decision's when Number() of it is
\* finite, otherwise the default of 25
SizePctOf(size_pct) ==
    IF size_pct.kind = "undefined" THEN 25 ELSE size_pct.num

(* C18: for OPEN_LONG and ADD the order notional (quantity x entry price)  *)
(* is min(quoteBalance x maxTradeRiskPct/100, quoteBalance x size_pct/100);*)
(* when that is below minNotional the result is an error, no order is      *)
(* submitted and the position is unchanged.                                *)
C18_NotionalCappedAndFloored ==
    [][(/\ IsExecuteStep
        /\ last'.action \in {"OPEN_LONG", "ADD"}
        /\ ~last'.wasPaused
        /\ SizePctOf(last'.size_pct) > 0) =>
          LET quote == IF IsSome(eng'.lastBalances) THEN Get(eng'.lastBalances)
                       ELSE RZero
              notional == RMin[RMul[quote, Rat[75, 10000]],
                               RMul[quote, Rat[SizePctOf(last'.size_pct), 100]]]
          IN  /\ RLt[notional, RInt(20)] =>
                    /\ last'.status = "error"
                    /\ last'.order = None
                    /\ last'.response = None
                    /\ addOrderCalls' = addOrderCalls
                    /\ openOrders' = openOrders
                    /\ eng'.position = eng.position
              /\ IsSome(last'.order) =>
                    RMul[Get(last'.order).quantity, Get(last'.order).price] = notional
      ]_vars

\* an OPEN_LONG on a balance whose trade cap is below the minimum notional
\* was rejected after the ticker and the balance had been read
C18_Witness ==
    /\ last.kind = "execute"
    /\ last.action = "OPEN_LONG"
    /\ last.status = "error"
    /\ opCount = 1
    /\ eng.lastBalances = Some(BalanceLow)
    /\ eng.position.side = "FLAT"

(* C19: with a quote balance of 1000, the default risk settings and dry-run*)
(* active, an OPEN_LONG decision with size_pct = 25 and a limit entry      *)
(* makes the engine submit a limit buy of volume                           *)
(* (1000 x 0.25 x min(1, 0.75/25)) / price rounded to the pair's decimals, *)
(* answered with a dry-run payload.  The call is one that reads the        *)
(* balance itself, so the ticker was available to it.                      *)
C19_DefaultOpenLongSubmits ==
    [][(/\ IsExecuteStep
        /\ dryRun
        /\ last'.action = "OPEN_LONG"
        /\ last'.size_pct = JsNum(25)
        /\ ~last'.wasPaused
        /\ eng.lastBalances = None
        /\ eng'.lastBalances = Some(RInt(1000))) =>
          /\ last'.status = "dry-run"
          /\ IsSome(last'.response)
          /\ Get(last'.response).dryRun
          /\ LET payload == Get(last'.response).payload
             IN  /\ payload.type = "buy"
                 /\ payload.ordertype = "limit"
                 /\ IsSome(payload.price)
                 /\ payload.volume =
                       ApplyVolumePrecision(
                          RDiv[RMul[RMul[RInt(1000), Rat[25, 100]],
                                    RMin[RInt(1), RDiv[Rat[75, 100], RInt(25)]]],
                               Get(payload.price)])
      ]_vars

-----------------------------------------------------------------------------
(* Properties of the order payload *)

\* v is x rounded to d decimals: a multiple of 10^-d no further than half a
\* unit of the last place from x
IsRoundedTo(v, x, d) ==
    LET scaled == RMul[v, RInt(Pow10(d))]
        diff   == RMul[RSub[v, x], RInt(2 * Pow10(d))]
    IN  /\ scaled.d = 1
        /\ RLe[diff, RInt(1)]
        /\ RLe[RInt(-1), diff]

(* C20: every order payload handed to the REST client or answered as a     *)
(* dry-run payload carries the asked volume rounded to the pair's volume   *)
(* decimals and, when it has one, the asked price rounded to the pair's    *)
(* price decimals; rounding a rounded value again gives the same value.    *)
C20_PayloadRounded ==
    (IsSome(last.response) /\ IsSome(last.order)) =>
       LET payload == Get(last.response).payload
           asked   == Get(last.order)
       IN  /\ IsRoundedTo(payload.volume, asked.quantity, pairInfo.lot_decimals)
           /\ FormatWithPrecision(payload.volume, pairInfo.lot_decimals)
                 = payload.volume
           /\ IsSome(payload.price) =>
                 /\ IsRoundedTo(Get(payload.price), asked.price,
                                pairInfo.pair_decimals)
                 /\ FormatWithPrecision(Get(payload.price), pairInfo.pair_decimals)
                       = Get(payload.price)

-----------------------------------------------------------------------------
(* Properties of the balance cache *)

(* C21: dailyStartingBalance is captured by the first balance snapshot and *)
(* never changes afterwards, whatever later snapshots report.              *)
C21_StartingBalanceFixed ==
    [][IsSome(eng.dailyStartingBalance) =>
          eng'.dailyStartingBalance = eng.dailyStartingBalance
      ]_vars

(* C22: the balance cache is single-flight: at most one fetchBalances      *)
(* request is outstanding at any time, and a read that is not forced and   *)
(* finds a snapshot less than 30 s old makes no request.                   *)
C22_SingleFlight ==
    [][/\ Cardinality(InFlight') <= 1
       /\ \A i \in Reads :
             (/\ reads[i].pc = "idle" /\ reads'[i].pc # "idle"
              /\ ~reads'[i].force
              /\ IsSome(eng.lastBalances)
              /\ now - eng.lastBalanceTs < 30000) => ~reads'[i].requested
      ]_vars

-----------------------------------------------------------------------------
(* Properties of the monitor's registries *)

(* C23: across subscribe calls, socket closes and reconnects the registry  *)
(* holds at most one entry per (channel, canonical symbol, interval) key:  *)
(* every spelling of a pair leads to the same key, and a subscribe call    *)
(* adds one handler under that key and touches no other; a socket close,   *)
(* the reconnect timer, the socket's opening and an acknowledgement remove *)
(* no entry and no handler.                                                *)
C23_RegistryKeptAcrossClose ==
    [][/\ \A ch \in Channels, pair \in PairSpellings : FeedFor(ch, pair) \in Feeds
       /\ Cardinality(Feeds) = Cardinality(Channels)
       /\ monLast'.kind = "subscribe" =>
             mon'.handlers = [mon.handlers EXCEPT ![monLast'.feed] = @ + 1]
       /\ monLast'.kind \in {"close", "timer", "open", "ack"} =>
             mon'.handlers = mon.handlers
      ]_vars

\* the reconnect timer has fired after a close with both feeds registered,
\* one of them with two handlers, and the handlers are all there
C23_Witness ==
    /\ monLast.kind = "timer"
    /\ Registered(mon) = Feeds
    /\ \E f \in Feeds : mon.handlers[f] = 2

-----------------------------------------------------------------------------
(* Properties of the monitor's dispatch *)

\* C24: while an OHLC, book or executions message is dispatched, an exception
\* thrown by a handler does not leave the dispatch, and every handler of the
\* entry is called for every delivered element of the message
C24_HandlerExceptionsContained ==
    disp.kind \in DispatchChannels =>
        /\ ~disp.thrown
        /\ Len(disp.invoked) = Len(disp.items)
        /\ \A k \in 1..Len(disp.items) :
              disp.items[k] => disp.invoked[k] = [i \in 1..Len(handlers) |-> i]

-----------------------------------------------------------------------------
(* Properties of the local order book *)

\* the key each price of the events is filed under
KeyOfPrice == [price \in LevelPrices |-> ToFixed(price, KeyDigits)]

PriceKeyOf(price) == KeyOfPrice[price]

\* the last level of a batch that names the price, 0 if none does
RECURSIVE LastLevelFor(_, _, _)
LastLevelFor(levels, price, i) ==
    IF i = 0 THEN 0
    ELSE IF ~levels[i].isNull /\ levels[i].price = JsNum(price) THEN i
    ELSE LastLevelFor(levels, price, i - 1)

\* what one side must be after an event, price by price
SideFollows(before, after, type, batch) ==
    LET levels == IF IsSome(batch) THEN Get(batch) ELSE <<>>
    IN  \A price \in LevelPrices :
        \A key \in {PriceKeyOf(price)} :
        \A i \in {LastLevelFor(levels, price, Len(levels))} :
           LET qty == NumberOf(levels[i].qty)
           IN  IF i = 0
               THEN IF type = "snapshot" THEN key \notin DOMAIN after
                    ELSE /\ (key \in DOMAIN after) = (key \in DOMAIN before)
                         /\ key \in DOMAIN before => after[key] = before[key]
               ELSE IF IsSome(qty) /\ RPos(Get(qty))
                    THEN /\ key \in DOMAIN after
                         /\ after[key] = [price |-> price, qty |-> Get(qty)]
                    ELSE key \notin DOMAIN after

\* C25: after a book event, on each side, a price whose last level in the
\* event has qty <= 0 is absent, one whose last level has qty > 0 is present
\* with exactly that quantity, and a price the event does not name is absent
\* after a snapshot and as it was after an update
C25_BookFollowsEvents ==
    [][/\ SideFollows(book.bids, book'.bids, bookLast'.type, bookLast'.bids)
       /\ SideFollows(book.asks, book'.asks, bookLast'.type, bookLast'.asks)
       /\ \A side \in {book'.bids, book'.asks} :
             DOMAIN side \subseteq {PriceKeyOf(p) : p \in LevelPrices}]_vars

\* a snapshot has left exactly its own bid level and, its ask level having
\* quantity null, no ask
C25_Witness ==
    /\ bookLast.type = "snapshot"
    /\ DOMAIN book.bids = {PriceKeyOf(Rat[2, 3])}
    /\ book.bids[PriceKeyOf(Rat[2, 3])].qty = RInt(2)
    /\ DOMAIN book.asks = {}
    /\ IsSome(book.lastFlush)

-----------------------------------------------------------------------------
(* Properties of the decider *)

\* C26: decide never throws, and the decision it returns has an allowed
\* action: HOLD when the mock or the model call fails, when the answer is no
\* object or cannot be parsed, and when its action is not an allowed one
C26_DecideReturnsAllowedAction ==
    /\ dec.pc # "threw"
    /\ dec.pc = "returned" =>
          /\ dec.result.action \in AllowedActions
          /\ (dec.calledOut /\ dec.answer.settled # "resolved") =>
                dec.result.action = "HOLD"

\* a value that is a finite number or null
IsFiniteOrNull(x) == x.kind \in {"number", "null"}

\* C27: the mock and the model are never called with an empty reason list:
\* decide with no reasons returns HOLD / 'No triggers' without calling out,
\* and a cycle whose merged reasons are empty returns without calling decide
C27_NoCallWithoutReasons ==
    /\ {} \notin calledWith
    /\ dec.pc \in {"mock", "model"} => dec.reasons # {}
    /\ (dec.pc = "returned" /\ dec.reasons = {}) =>
          /\ ~dec.calledOut
          /\ dec.result = DefaultDecision(<<"No triggers">>)
    /\ (dec.viaCycle /\ dec.reasons = {}) =>
          dec.pc = "cycle returned" /\ ~dec.calledOut

\* decide has returned 'No triggers' for an empty reason list, after a call
\* that went out to the mock or the model
C27_Witness ==
    /\ dec.pc = "returned" /\ dec.reasons = {} /\ ~dec.viaCycle
    /\ dec.result.comment = <<"No triggers">>
    /\ calledWith # {}

\* C28: in a decision decide returns, size_pct, stop_atr and tp_atr are each
\* a finite number or null, entry is null or has type market or limit, and
\* followups is a list of strings
C28_DecisionFieldsNormalised ==
    dec.pc = "returned" =>
        /\ IsFiniteOrNull(dec.result.size_pct)
        /\ IsFiniteOrNull(dec.result.stop_atr)
        /\ IsFiniteOrNull(dec.result.tp_atr)
        /\ \/ dec.result.entry.kind = "null"
           \/ /\ dec.result.entry.kind = "object"
              /\ dec.result.entry.type \in {"market", "limit"}
        /\ dec.result.followups.kind = "array"
        /\ \A i \in DOMAIN dec.result.followups.items :
              dec.result.followups.items[i] = "string"

-----------------------------------------------------------------------------
(* Properties of the decision log *)

\* the calls whose write is between its start and its end
Writing == {i \in LogCalls : logs[i].pc \in {"mkdir", "access", "header", "append"}}

\* C29: at most one write is in progress, no write starts before every
\* earlier call has settled, the rows are in the file in call order, the
\* header is in it at most once and before any row, and the row of every
\* write that met no failure is in it, whatever became of the earlier ones
C29_WritesSerialised ==
    /\ Cardinality(Writing) <= 1
    /\ \A i \in Writing : \A j \in LogCalls : j < i => logs[j].pc = "settled"
    /\ \A m, n \in DOMAIN logFile.lines :
          (m < n /\ logFile.lines[m] # HeaderLine) =>
              /\ logFile.lines[n] # HeaderLine
              /\ logFile.lines[m] < logFile.lines[n]
    /\ Cardinality({m \in DOMAIN logFile.lines : logFile.lines[m] = HeaderLine}) <= 1
    /\ \A i \in LogCalls :
          (logs[i].pc = "settled" /\ logs[i].failedAt = "none" /\ ~logs[i].isNull) =>
              \E m \in DOMAIN logFile.lines : logFile.lines[m] = i

\* the first write failed after the header was written, and the rows of the
\* two calls queued behind it follow the header
C29_Witness ==
    /\ logs[1].pc = "settled" /\ logs[1].failedAt = "append"
    /\ logFile.lines = <<HeaderLine, 2, 3>>

-----------------------------------------------------------------------------
(* Properties of the bot's stop *)

QuotesEnding(str) == {k \in DOMAIN KNOWN_QUOTES : EndsWith(str, KNOWN_QUOTES[k])}

LongestQuoteEnding(str) ==
    KNOWN_QUOTES[CHOOSE k \in QuotesEnding(str) :
                    \A j \in QuotesEnding(str) :
                        Len(KNOWN_QUOTES[j]) <= Len(KNOWN_QUOTES[k])]

\* setPair with one of the bot's own two spellings leaves the pair as it is
OwnSpellingKeepsPair ==
    (symOps' # symOps /\ symLast'.via \in {"wsPair", "restPair"})
        => /\ ~symLast'.thrown
           /\ normalisePair(symLast'.input).wsPair = botPair.wsPair
           /\ normalisePair(symLast'.input).restPair = botPair.restPair
           /\ botPair' = botPair

\* the three spellings of one pair give one result
SpellingsAgree ==
    /\ normalisePair(JsString(<<"D", "O", "G", "E", "U", "S", "D">>))
         = normalisePair(JsString(<<"d", "o", "g", "e", "/", "u", "s", "d">>))
    /\ normalisePair(JsString(<<"D", "O", "G", "E", "U", "S", "D">>))
         = normalisePair(JsString(<<"D", "O", "G", "E", "-", "U", "S", "D">>))
    /\ normalisePair(JsString(<<"D", "O", "G", "E", "U", "S", "D">>)).wsPair
         = <<"D", "O", "G", "E", "/", "U", "S", "D">>

\* a pair given without separator gets the longest known quote that ends it
SplitAtLongestQuote ==
    (/\ symOps' # symOps
     /\ symLast'.input.isString
     /\ ~symLast'.thrown
     /\ \A i \in DOMAIN symLast'.input.chars :
            symLast'.input.chars[i] \notin {"/", ":", " ", "-"}
     /\ QuotesEnding(symLast'.input.chars) # {})
        => normalisePair(symLast'.input).quote
              = LongestQuoteEnding(symLast'.input.chars)

\* C31: normalising the wsPair or the restPair the normaliser produced gives
\* the same wsPair and restPair; 'DOGEUSD', 'doge/usd' and 'DOGE-USD' give one
\* result; a pair without separator is split at the longest known quote that
\* ends it.
C31_NormaliserIdempotent ==
    [][OwnSpellingKeepsPair /\ SpellingsAgree /\ SplitAtLongestQuote]_vars

\* the score as the sum of the independent signals
SignalScore(timeframes) ==
    LET tf5 == timeframes.m5
        tf15 == timeframes.m15
        tf1h == timeframes.h1
        stack(tf, points) ==
            IF ~IsSome(tf) THEN 0
            ELSE IF Get(tf).maStack = "bull" THEN points
            ELSE IF Get(tf).maStack = "bear" THEN -points ELSE 0
        sign(x) == IF FiniteAbove(x, RZero) THEN 1
                   ELSE IF FiniteBelow(x, RZero) THEN -1 ELSE 0
        band(x, low, high) == IF FiniteAbove(x, high) THEN 1
                              ELSE IF FiniteBelow(x, low) THEN -1 ELSE 0
    IN  stack(tf15, 2)
        + (IF IsSome(tf15) THEN sign(Get(tf15).macdHistogram) ELSE 0)
        + (IF IsSome(tf15) THEN band(Get(tf15).rsi, RInt(45), RInt(55)) ELSE 0)
        + (IF IsSome(tf5) THEN band(Get(tf5).priceZ20, Rat[-6, 5], Rat[6, 5]) ELSE 0)
        + (IF IsSome(tf5) /\ FiniteAbove(Get(tf5).volumeZScore, Rat[3, 2]) THEN 1 ELSE 0)
        + stack(tf1h, 1)

\* C32: the confluence score of a snapshot is +2/-2 for the 15m ma_stack
\* bull/bear, +1/-1 for a positive/negative 15m MACD histogram, +1 for 15m
\* RSI > 55 and -1 for < 45, +1 for 5m price_z20 > 1.2 and -1 for < -1.2, +1
\* for 5m volume_z > 1.5, +1/-1 for the 1h ma_stack bull/bear; a missing
\* timeframe contributes 0.
C32_ConfluenceIsSignalSum ==
    featureSnap.built => featureSnap.confluence.score = SignalScore(featureSnap.timeframes)

\* C33: a sell fill starts the loss-streak cooldown only when the most recent
\* pauseAfterLosses sell outcomes are losses in a row; a losing sell, a winning
\* sell and a losing sell do not pause the engine.
C33_CooldownOnlyOnConsecutiveLosses ==
    [][ LET lossNow  == RLt[eng'.realizedPnlQuote, eng.realizedPnlQuote]
            outcomes == Append(eng.lossCountWindow, lossNow)
        IN  (IsSellFillStep /\ eng'.lossCountWindow = <<>>) =>
              /\ Len(outcomes) >= PauseAfterLosses
              /\ \A i \in (Len(outcomes) - PauseAfterLosses + 1)..Len(outcomes) :
                    outcomes[i]
      ]_vars

InRebalance(call) == call.pc \in {"counting", "recreating", "repopulating"}

\* C34: onRebalance is gated by busy: at most one rebalance runs at a time, a
\* fill arriving during a rebalance is skipped, and busy is false again after
\* a rebalance ends for any reason, a thrown error included.
C34_BusyGatesRebalance ==
    LET running == {i \in DOMAIN gridBot.calls : InRebalance(gridBot.calls[i])}
    IN  /\ Cardinality(running) <= 1
        /\ \A i \in DOMAIN gridBot.calls :
              (gridBot.calls[i].pc = "skipped") =>
                 \E j \in 1..(i - 1) : gridBot.calls[j].pc # "skipped"
        /\ gridBot.busy <=> running # {}

\* C35: when the order submission inside execute fails (the REST request
\* errors, or the volume is below the pair's minimum), position, realised PnL,
\* loss window and pauseUntil are what they were before the call
C35_FailedSubmissionLeavesLedger ==
    [][ (IsExecuteStep /\ last'.thrown) =>
          /\ eng'.position = eng.position
          /\ eng'.realizedPnlQuote = eng.realizedPnlQuote
          /\ eng'.lossCountWindow = eng.lossCountWindow
          /\ eng'.pauseUntil = eng.pauseUntil
      ]_vars

\* a CLOSE_ALL of an open position has just failed at the exchange
C35_Witness ==
    /\ last.kind = "execute" /\ last.thrown /\ last.action = "CLOSE_ALL"
    /\ ~dryRun /\ addOrderCalls > 0
    /\ eng.position.side = "LONG"

\* C36: once stop() has resolved the bot submits no further order: no
\* execute reaches its order call and no AddOrder request is issued
C36_NoOrderAfterStop ==
    [][ (botState.stop = "completed") =>
          /\ addOrderCalls' = addOrderCalls
          /\ ~(IsExecuteStep /\ IsSome(last'.order))
      ]_vars

\* a step that is the unsubscribe() of a subscription handle
IsUnsubscribeStep == monOps' = monOps + 1 /\ monLast'.kind = "unsubscribe"

\* C37: an unsubscribe closes the public socket only when both the OHLC and
\* the book registry are empty; removing the last OHLC handler while a book
\* subscription is registered leaves the socket open
C37_SocketClosedOnlyWhenIdle ==
    [][ (IsUnsubscribeStep /\ mon.socket # "null" /\ mon'.socket = "null") =>
          (PriceHandlers(mon') = {} /\ BookHandlers(mon') = {})
      ]_vars

\* C38: a decision whose size_pct is null is sized with the default:
\* OPEN_LONG and ADD with defaultSizePct, TRIM and CLOSE_PARTIAL with 50; the
\* action is not ignored for its size
C38_NullSizeUsesDefault ==
    [][ (IsExecuteStep /\ last'.size_pct = JsNull /\ ~last'.wasPaused) =>
          /\ last'.action \in {"OPEN_LONG", "ADD"} => last'.status # "ignored"
          /\ (/\ last'.action \in {"TRIM", "CLOSE_PARTIAL"}
              /\ eng.position.side = "LONG" /\ RPos(eng.position.size))
                => last'.status # "ignored"
      ]_vars

\* C39: while the engine is paused the pause deadline never moves earlier:
\* neither a PAUSE decision nor the cooldown a fill starts sets pauseUntil
\* below its current value
C39_PauseDeadlineNeverEarlier ==
    [][IsPaused(eng, now) => eng'.pauseUntil >= eng.pauseUntil]_vars

\* a step that is one call of EventEngine.reset
IsResetStep == evOps' = evOps + 1 /\ now' = now /\ evLast'.kind = "reset"

\* C40: reset() clears the remembered trend, volatility, confluence and
\* liquidity flags, the pending reasons and the last emission time, and leaves
\* the 5m / 15m / 60m bucket indices and the last drawdown alert as they were
C40_ResetKeepsBucketsAndAlert ==
    [][ IsResetStep =>
          /\ ev'.lastTrendState = "null"
          /\ ev'.lastVolState = "null"
          /\ ev'.lastConfluence = None
          /\ ev'.lastLiquidity = NoLiquidity
          /\ ev'.pendingReasonSet = {}
          /\ ev'.lastEmitTs = 0
          /\ ev'.lastBuckets = ev.lastBuckets
          /\ ev'.lastDrawdownAlert = ev.lastDrawdownAlert
      ]_vars

\* reset() has just run on an engine that had seen a price tick and raised a
\* drawdown alert
C40_Witness ==
    /\ evLast.kind = "reset"
    /\ IsSome(ev.lastBuckets.m5) /\ IsSome(ev.lastBuckets.m60)
    /\ IsSome(ev.lastDrawdownAlert)
    /\ ev.lastEmitTs = 0

====
